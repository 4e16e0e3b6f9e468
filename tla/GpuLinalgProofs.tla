-------------------------- MODULE GpuLinalgProofs --------------------------
(***************************************************************************)
(* Proofs about module GpuLinalg, for all shapes, lengths, option letters  *)
(* and widths of an int.                                                   *)
(***************************************************************************)
EXTENDS GpuLinalg, TLAPS

(***************************************************************************)
(* What the thirteen routines ask of the device.                           *)
(***************************************************************************)
Scopes == ArrayIds \ {"work"}
IdsOf(s) == {s[i].id : i \in DOMAIN s}

\* The arrays of a call have names of their own, and none is the work space.
GoodArrays(s) ==
  /\ DOMAIN s = 1..Len(s) /\ Len(s) \in 1..3
  /\ \A i \in DOMAIN s : s[i].id \in Scopes /\ s[i].size \in Int
  /\ \A i, k \in DOMAIN s : s[i].id = s[k].id => i = k

\* What is filled are arrays of the call, each once.
GoodFills(s, ids) ==
  /\ DOMAIN s = 1..Len(s) /\ Len(s) \in 1..3
  /\ \A i \in DOMAIN s : s[i].op \in {"copy", "memset"} /\ s[i].to \in ids
  /\ \A i, k \in DOMAIN s : s[i].to = s[k].to => i = k

\* What a routine walks through is nothing, or lies in an array with memory behind it.
FitsIn(v, s) ==
  \/ v.rows * v.cols = 0
  \/ \E i \in DOMAIN s : s[i].id = v.id /\ s[i].size > 0 /\ v.ld * (v.cols - 1) + v.rows <= s[i].size

\* static_cast<int> gives an integer, and a length that an int can hold itself.
LEMMA ToIntFacts ==
  ASSUME NEW n \in Nat
  PROVE  ToInt(n) \in Int /\ (n < 2^(IntWidth - 1) => ToInt(n) = n)
<1>1. PICK h \in Nat \ {0} : h = 2^(IntWidth - 1) /\ 2^IntWidth = 2 * h
  BY PowerAssumption
<1>2. ToInt(n) = ((n + h) % (2 * h)) - h
  BY <1>1 DEF ToInt
<1>3. (n + h) % (2 * h) \in Int
  OBVIOUS
<1>4. n < h => (n + h) % (2 * h) = n + h
  OBVIOUS
<1>5. QED
  BY <1>1, <1>2, <1>3, <1>4

\* A matrix has the dimensions of one of the shapes.
LEMMA MatrixDims == \A M \in Matrices : M.r \in Nat /\ M.c \in Nat
<1>1. ASSUME NEW s \in Shapes
      PROVE  s[1] \in Nat /\ s[2] \in Nat
  BY LinalgAssumption, PowerAssumption
<1>2. QED
  BY <1>1 DEF Matrices

\* One array.
LEMMA Arrays1 ==
  ASSUME NEW x \in Scopes, NEW m \in Int
  PROVE  GoodArrays(<<Array(x, m)>>) /\ IdsOf(<<Array(x, m)>>) = {x}
  BY DEF GoodArrays, IdsOf, Array

\* Two arrays.
LEMMA Arrays2 ==
  ASSUME NEW x \in Scopes, NEW m \in Int, NEW y \in Scopes, NEW n \in Int, x # y
  PROVE  /\ GoodArrays(<<Array(x, m), Array(y, n)>>)
         /\ IdsOf(<<Array(x, m), Array(y, n)>>) = {x, y}
  BY DEF GoodArrays, IdsOf, Array

\* Three arrays.
LEMMA Arrays3 ==
  ASSUME NEW x \in Scopes, NEW m \in Int, NEW y \in Scopes, NEW n \in Int,
         NEW z \in Scopes, NEW k \in Int, x # y, x # z, y # z
  PROVE  /\ GoodArrays(<<Array(x, m), Array(y, n), Array(z, k)>>)
         /\ IdsOf(<<Array(x, m), Array(y, n), Array(z, k)>>) = {x, y, z}
<1> DEFINE s == <<Array(x, m), Array(y, n), Array(z, k)>>
<1>1. /\ DOMAIN s = {1, 2, 3} /\ Len(s) = 3
      /\ s[1] = Array(x, m) /\ s[2] = Array(y, n) /\ s[3] = Array(z, k)
  OBVIOUS
<1> HIDE DEF s
<1>2. /\ s[1].id = x /\ s[2].id = y /\ s[3].id = z
      /\ s[1].size = m /\ s[2].size = n /\ s[3].size = k
  BY <1>1 DEF Array
<1>3. GoodArrays(s) /\ IdsOf(s) = {x, y, z}
  BY <1>1, <1>2 DEF GoodArrays, IdsOf
<1>4. QED
  BY <1>3 DEF s

\* A whole matrix lies in an array of its size.
LEMMA MatrixFits ==
  ASSUME NEW s, NEW i \in DOMAIN s, NEW x, NEW m \in Nat, NEW n \in Nat, s[i] = Array(x, m * n)
  PROVE  FitsIn(View(x, m, n, m), s)
<1>1. m * n = 0 \/ (m * n > 0 /\ m * (n - 1) + m <= m * n)
  OBVIOUS
<1>2. QED
  BY <1>1 DEF FitsIn, View, Array

\* So does a vector, also an empty one.
LEMMA VectorFits ==
  ASSUME NEW s, NEW i \in DOMAIN s, NEW x, NEW n \in Nat, s[i] = Array(x, n)
  PROVE  FitsIn(Vec(x, n), s)
<1>1. n * 1 = 0 \/ (n > 0 /\ Larger(1, n) * (1 - 1) + n <= n)
  BY DEF Larger
<1>2. QED
  BY <1>1 DEF FitsIn, Vec, View, Array

-----------------------------------------------------------------------------
\* Every array that a routine reads has been filled; only C of dsyrk is cleared instead
\* of uploaded. What it writes are arrays of the call.
ReadsFilled(r, a, p) ==
  ~p.refuses =>
    \A k \in DOMAIN p.reads : \E j \in DOMAIN p.fills :
      /\ p.fills[j].to = p.reads[k]
      /\ p.fills[j].op = "memset" <=> r = "dsyrk" /\ p.reads[k] = "C" /\ a.beta = 0
WritesOwn(p) == \A i \in DOMAIN p.writes : p.writes[i] \in IdsOf(p.arrays)
ViewsFit(p) ==
  p.accepts /\ (\A i \in DOMAIN p.arrays : p.arrays[i].size >= 0) =>
    \A k \in DOMAIN p.views : FitsIn(p.views[k], p.arrays)

PlanOK(r, a, p) ==
  /\ GoodArrays(p.arrays) /\ GoodFills(p.fills, IdsOf(p.arrays))
  /\ ReadsFilled(r, a, p) /\ WritesOwn(p) /\ ViewsFit(p)

\* One, two or three views fit when each of them does.
LEMMA Views ==
  ASSUME NEW s, NEW u, FitsIn(u, s), NEW v, FitsIn(v, s), NEW w, FitsIn(w, s)
  PROVE  /\ \A k \in DOMAIN <<u>> : FitsIn(<<u>>[k], s)
         /\ \A k \in DOMAIN <<u, v>> : FitsIn(<<u, v>>[k], s)
         /\ \A k \in DOMAIN <<u, v, w>> : FitsIn(<<u, v, w>>[k], s)
  OBVIOUS

\* C = op(A) op(B)
LEMMA dgemmPlan == \A a \in Args("dgemm") : PlanOK("dgemm", a, dgemm(a))
<1> SUFFICES ASSUME NEW a \in Args("dgemm") PROVE PlanOK("dgemm", a, dgemm(a))
  OBVIOUS
<1> DEFINE p == dgemm(a)
           m == IF a.transA THEN a.A.c ELSE a.A.r
           n == IF a.transB THEN a.B.r ELSE a.B.c
<1>1. a.A.r \in Nat /\ a.A.c \in Nat /\ a.B.r \in Nat /\ a.B.c \in Nat
  BY MatrixDims DEF Args
<1>2. p.arrays = <<Array("A", a.A.r * a.A.c), Array("B", a.B.r * a.B.c), Array("C", m * n)>>
  BY DEF dgemm
<1>3. GoodArrays(p.arrays) /\ IdsOf(p.arrays) = {"A", "B", "C"}
  <2>1. a.A.r * a.A.c \in Int /\ a.B.r * a.B.c \in Int /\ m * n \in Int
    BY <1>1
  <2>2. "A" \in Scopes /\ "B" \in Scopes /\ "C" \in Scopes
    BY DEF Scopes, ArrayIds
  <2>3. QED
    BY <2>1, <2>2, <1>2, Arrays3
<1>4. GoodFills(p.fills, {"A", "B", "C"})
  BY DEF dgemm, GoodFills, Upload
<1>5. ReadsFilled("dgemm", a, p) /\ WritesOwn(p)
  BY <1>3 DEF dgemm, ReadsFilled, WritesOwn, Upload
<1>6. ASSUME p.accepts
      PROVE  \A k \in DOMAIN p.views : FitsIn(p.views[k], p.arrays)
  <2>1. p.views = <<View("A", a.A.r, a.A.c, a.A.r), View("B", a.B.r, a.B.c, a.B.r), View("C", m, n, m)>>
    BY <1>6 DEF dgemm
  <2>2. FitsIn(View("A", a.A.r, a.A.c, a.A.r), p.arrays)
    BY <1>1, <1>2, MatrixFits
  <2>3. FitsIn(View("B", a.B.r, a.B.c, a.B.r), p.arrays)
    BY <1>1, <1>2, MatrixFits
  <2>4. FitsIn(View("C", m, n, m), p.arrays)
    BY <1>1, <1>2, MatrixFits
  <2>5. QED
    BY <2>1, <2>2, <2>3, <2>4, Views
<1>7. QED
  BY <1>3, <1>4, <1>5, <1>6 DEF PlanOK, ViewsFit

\* y = alpha x + y, and x y: a length that turns negative is not allocated.
LEMMA daxpyPlan == \A a \in Args("daxpy") : PlanOK("daxpy", a, daxpy(a))
<1> SUFFICES ASSUME NEW a \in Args("daxpy") PROVE PlanOK("daxpy", a, daxpy(a))
  OBVIOUS
<1> DEFINE p == daxpy(a)
           n == ToInt(a.x)
<1>1. n \in Int
  BY ToIntFacts, LinalgAssumption DEF Args
<1>2. p.arrays = <<Array("x", n), Array("y", n)>>
  BY DEF daxpy
<1>3. GoodArrays(p.arrays) /\ IdsOf(p.arrays) = {"x", "y"}
  <2>1. n \in Int /\ n \in Int
    BY <1>1
  <2>2. "x" \in Scopes /\ "y" \in Scopes
    BY DEF Scopes, ArrayIds
  <2>3. QED
    BY <2>1, <2>2, <1>2, Arrays2
<1>4. GoodFills(p.fills, {"x", "y"})
  BY DEF daxpy, GoodFills, Upload
<1>5. ReadsFilled("daxpy", a, p) /\ WritesOwn(p)
  BY <1>3 DEF daxpy, ReadsFilled, WritesOwn, Upload
<1>6. ASSUME p.accepts, \A i \in DOMAIN p.arrays : p.arrays[i].size >= 0
      PROVE  \A k \in DOMAIN p.views : FitsIn(p.views[k], p.arrays)
  <2>1. p.views = <<Vec("x", n), Vec("y", n)>>
    BY <1>1, <1>6 DEF daxpy
  <2>2. n \in Nat
    BY <1>1, <1>2, <1>6 DEF Array
  <2>3. FitsIn(Vec("x", n), p.arrays)
    BY <1>1, <1>2, <2>2, VectorFits
  <2>4. FitsIn(Vec("y", n), p.arrays)
    BY <1>1, <1>2, <2>2, VectorFits
  <2>5. QED
    BY <2>1, <2>3, <2>4, Views
<1>7. QED
  BY <1>3, <1>4, <1>5, <1>6 DEF PlanOK, ViewsFit

\* The product of two vectors.
LEMMA ddotPlan == \A a \in Args("ddot") : PlanOK("ddot", a, ddot(a))
<1> SUFFICES ASSUME NEW a \in Args("ddot") PROVE PlanOK("ddot", a, ddot(a))
  OBVIOUS
<1> DEFINE p == ddot(a)
           n == ToInt(a.x)
<1>1. n \in Int
  BY ToIntFacts, LinalgAssumption DEF Args
<1>2. p.arrays = <<Array("x", n), Array("y", n)>>
  BY DEF ddot
<1>3. GoodArrays(p.arrays) /\ IdsOf(p.arrays) = {"x", "y"}
  <2>1. n \in Int /\ n \in Int
    BY <1>1
  <2>2. "x" \in Scopes /\ "y" \in Scopes
    BY DEF Scopes, ArrayIds
  <2>3. QED
    BY <2>1, <2>2, <1>2, Arrays2
<1>4. GoodFills(p.fills, {"x", "y"})
  BY DEF ddot, GoodFills, Upload
<1>5. ReadsFilled("ddot", a, p) /\ WritesOwn(p)
  BY <1>3 DEF ddot, ReadsFilled, WritesOwn, Upload
<1>6. ASSUME p.accepts, \A i \in DOMAIN p.arrays : p.arrays[i].size >= 0
      PROVE  \A k \in DOMAIN p.views : FitsIn(p.views[k], p.arrays)
  <2>1. p.views = <<Vec("x", n), Vec("y", n)>>
    BY <1>1, <1>6 DEF ddot
  <2>2. n \in Nat
    BY <1>1, <1>2, <1>6 DEF Array
  <2>3. FitsIn(Vec("x", n), p.arrays)
    BY <1>1, <1>2, <2>2, VectorFits
  <2>4. FitsIn(Vec("y", n), p.arrays)
    BY <1>1, <1>2, <2>2, VectorFits
  <2>5. QED
    BY <2>1, <2>3, <2>4, Views
<1>7. QED
  BY <1>3, <1>4, <1>5, <1>6 DEF PlanOK, ViewsFit

\* The norm of a vector.
LEMMA dnrm2Plan == \A a \in Args("dnrm2") : PlanOK("dnrm2", a, dnrm2(a))
<1> SUFFICES ASSUME NEW a \in Args("dnrm2") PROVE PlanOK("dnrm2", a, dnrm2(a))
  OBVIOUS
<1> DEFINE p == dnrm2(a)
           n == ToInt(a.x)
<1>1. n \in Int
  BY ToIntFacts, LinalgAssumption DEF Args
<1>2. p.arrays = <<Array("x", n)>>
  BY DEF dnrm2
<1>3. GoodArrays(p.arrays) /\ IdsOf(p.arrays) = {"x"}
  <2>1. n \in Int
    BY <1>1
  <2>2. "x" \in Scopes
    BY DEF Scopes, ArrayIds
  <2>3. QED
    BY <2>1, <2>2, <1>2, Arrays1
<1>4. GoodFills(p.fills, {"x"})
  BY DEF dnrm2, GoodFills, Upload
<1>5. ReadsFilled("dnrm2", a, p) /\ WritesOwn(p)
  BY <1>3 DEF dnrm2, ReadsFilled, WritesOwn, Upload
<1>6. ASSUME p.accepts, \A i \in DOMAIN p.arrays : p.arrays[i].size >= 0
      PROVE  \A k \in DOMAIN p.views : FitsIn(p.views[k], p.arrays)
  <2>1. p.views = <<Vec("x", n)>>
    BY <1>1, <1>6 DEF dnrm2
  <2>2. n \in Nat
    BY <1>1, <1>2, <1>6 DEF Array
  <2>3. FitsIn(Vec("x", n), p.arrays)
    BY <1>1, <1>2, <2>2, VectorFits
  <2>4. QED
    BY <2>1, <2>3, Views
<1>7. QED
  BY <1>3, <1>4, <1>5, <1>6 DEF PlanOK, ViewsFit

\* x = alpha x
LEMMA dscalPlan == \A a \in Args("dscal") : PlanOK("dscal", a, dscal(a))
<1> SUFFICES ASSUME NEW a \in Args("dscal") PROVE PlanOK("dscal", a, dscal(a))
  OBVIOUS
<1> DEFINE p == dscal(a)
           n == ToInt(a.x)
<1>1. n \in Int
  BY ToIntFacts, LinalgAssumption DEF Args
<1>2. p.arrays = <<Array("x", n)>>
  BY DEF dscal
<1>3. GoodArrays(p.arrays) /\ IdsOf(p.arrays) = {"x"}
  <2>1. n \in Int
    BY <1>1
  <2>2. "x" \in Scopes
    BY DEF Scopes, ArrayIds
  <2>3. QED
    BY <2>1, <2>2, <1>2, Arrays1
<1>4. GoodFills(p.fills, {"x"})
  BY DEF dscal, GoodFills, Upload
<1>5. ReadsFilled("dscal", a, p) /\ WritesOwn(p)
  BY <1>3 DEF dscal, ReadsFilled, WritesOwn, Upload
<1>6. ASSUME p.accepts, \A i \in DOMAIN p.arrays : p.arrays[i].size >= 0
      PROVE  \A k \in DOMAIN p.views : FitsIn(p.views[k], p.arrays)
  <2>1. p.views = <<Vec("x", n)>>
    BY <1>1, <1>6 DEF dscal
  <2>2. n \in Nat
    BY <1>1, <1>2, <1>6 DEF Array
  <2>3. FitsIn(Vec("x", n), p.arrays)
    BY <1>1, <1>2, <2>2, VectorFits
  <2>4. QED
    BY <2>1, <2>3, Views
<1>7. QED
  BY <1>3, <1>4, <1>5, <1>6 DEF PlanOK, ViewsFit

\* y = op(A) x + beta y0
LEMMA dgemvPlan == \A a \in Args("dgemv") : PlanOK("dgemv", a, dgemv(a))
<1> SUFFICES ASSUME NEW a \in Args("dgemv") PROVE PlanOK("dgemv", a, dgemv(a))
  OBVIOUS
<1> DEFINE p == dgemv(a)
           m == a.A.r
           n == a.A.c
           out == IF a.trans THEN n ELSE m
           xlen == IF a.trans THEN m ELSE n
<1>1. m \in Nat /\ n \in Nat /\ out \in Nat /\ xlen \in Nat
  BY MatrixDims DEF Args
<1>2. p.arrays = <<Array("A", m * n), Array("x", xlen), Array("y", out)>>
  BY DEF dgemv
<1>3. GoodArrays(p.arrays) /\ IdsOf(p.arrays) = {"A", "x", "y"}
  <2>1. m * n \in Int /\ xlen \in Int /\ out \in Int
    BY <1>1
  <2>2. "A" \in Scopes /\ "x" \in Scopes /\ "y" \in Scopes
    BY DEF Scopes, ArrayIds
  <2>3. QED
    BY <2>1, <2>2, <1>2, Arrays3
<1>4. GoodFills(p.fills, {"A", "x", "y"})
  <2>1. CASE p.refuses
    <3>1. p.fills = <<Upload("A"), Upload("x")>>
      BY <2>1 DEF dgemv
    <3>2. QED
      BY <3>1 DEF GoodFills, Upload
  <2>2. CASE ~p.refuses
    <3>1. PICK f \in {Upload("y"), Memset("y")} : p.fills = <<Upload("A"), Upload("x"), f>>
      BY <2>2 DEF dgemv
    <3>2. f.op \in {"copy", "memset"} /\ f.to = "y"
      BY DEF Upload, Memset
    <3>3. QED
      BY <3>1, <3>2 DEF GoodFills, Upload
  <2>3. QED
    BY <2>1, <2>2
<1>5. ReadsFilled("dgemv", a, p) /\ WritesOwn(p)
  <2>1. WritesOwn(p)
    BY <1>3 DEF dgemv, WritesOwn
  <2>2. CASE ~p.refuses /\ a.beta # 0
    <3>1. p.fills = <<Upload("A"), Upload("x"), Upload("y")>> /\ p.reads = <<"A", "x", "y">>
      BY <2>2 DEF dgemv
    <3>2. QED
      BY <2>1, <3>1 DEF ReadsFilled, Upload
  <2>3. CASE ~p.refuses /\ a.beta = 0
    <3>1. p.fills = <<Upload("A"), Upload("x"), Memset("y")>> /\ p.reads = <<"A", "x">>
      BY <2>3 DEF dgemv
    <3>2. QED
      BY <2>1, <3>1 DEF ReadsFilled, Upload
  <2>4. QED
    BY <2>1, <2>2, <2>3 DEF ReadsFilled
<1>6. ASSUME p.accepts
      PROVE  \A k \in DOMAIN p.views : FitsIn(p.views[k], p.arrays)
  <2>1. p.views = <<View("A", m, n, m), Vec("x", xlen), Vec("y", out)>>
    BY <1>1, <1>6 DEF dgemv
  <2>2. FitsIn(View("A", m, n, m), p.arrays)
    BY <1>1, <1>2, MatrixFits
  <2>3. FitsIn(Vec("x", xlen), p.arrays)
    BY <1>1, <1>2, VectorFits
  <2>4. FitsIn(Vec("y", out), p.arrays)
    BY <1>1, <1>2, VectorFits
  <2>5. QED
    BY <2>1, <2>2, <2>3, <2>4, Views
<1>7. QED
  BY <1>3, <1>4, <1>5, <1>6 DEF PlanOK, ViewsFit

\* C = op(A) B or B op(A)
LEMMA dtrmmPlan == \A a \in Args("dtrmm") : PlanOK("dtrmm", a, dtrmm(a))
<1> SUFFICES ASSUME NEW a \in Args("dtrmm") PROVE PlanOK("dtrmm", a, dtrmm(a))
  OBVIOUS
<1> DEFINE p == dtrmm(a)
           m == a.B.r
           n == a.B.c
<1>1. a.A.r \in Nat /\ a.A.c \in Nat /\ m \in Nat /\ n \in Nat
  BY MatrixDims DEF Args
<1>2. p.arrays = <<Array("A", a.A.r * a.A.c), Array("B", m * n), Array("C", m * n)>>
  BY DEF dtrmm
<1>3. GoodArrays(p.arrays) /\ IdsOf(p.arrays) = {"A", "B", "C"}
  <2>1. a.A.r * a.A.c \in Int /\ m * n \in Int /\ m * n \in Int
    BY <1>1
  <2>2. "A" \in Scopes /\ "B" \in Scopes /\ "C" \in Scopes
    BY DEF Scopes, ArrayIds
  <2>3. QED
    BY <2>1, <2>2, <1>2, Arrays3
<1>4. GoodFills(p.fills, {"A", "B", "C"})
  BY DEF dtrmm, GoodFills, Upload
<1>5. ReadsFilled("dtrmm", a, p) /\ WritesOwn(p)
  BY <1>3 DEF dtrmm, ReadsFilled, WritesOwn, Upload
<1>6. ASSUME p.accepts
      PROVE  \A k \in DOMAIN p.views : FitsIn(p.views[k], p.arrays)
  <2>1. p.views = <<View("A", a.A.r, a.A.c, a.A.r), View("B", m, n, m), View("C", m, n, m)>>
    BY <1>1, <1>6 DEF dtrmm
  <2>2. FitsIn(View("A", a.A.r, a.A.c, a.A.r), p.arrays)
    BY <1>1, <1>2, MatrixFits
  <2>3. FitsIn(View("B", m, n, m), p.arrays)
    BY <1>1, <1>2, MatrixFits
  <2>4. FitsIn(View("C", m, n, m), p.arrays)
    BY <1>1, <1>2, MatrixFits
  <2>5. QED
    BY <2>1, <2>2, <2>3, <2>4, Views
<1>7. QED
  BY <1>3, <1>4, <1>5, <1>6 DEF PlanOK, ViewsFit

\* op(A) X = B or X op(A) = B
LEMMA dtrsmPlan == \A a \in Args("dtrsm") : PlanOK("dtrsm", a, dtrsm(a))
<1> SUFFICES ASSUME NEW a \in Args("dtrsm") PROVE PlanOK("dtrsm", a, dtrsm(a))
  OBVIOUS
<1> DEFINE p == dtrsm(a)
           m == a.B.r
           n == a.B.c
<1>1. a.A.r \in Nat /\ a.A.c \in Nat /\ m \in Nat /\ n \in Nat
  BY MatrixDims DEF Args
<1>2. p.arrays = <<Array("A", a.A.r * a.A.c), Array("B", m * n)>>
  BY DEF dtrsm
<1>3. GoodArrays(p.arrays) /\ IdsOf(p.arrays) = {"A", "B"}
  <2>1. a.A.r * a.A.c \in Int /\ m * n \in Int
    BY <1>1
  <2>2. "A" \in Scopes /\ "B" \in Scopes
    BY DEF Scopes, ArrayIds
  <2>3. QED
    BY <2>1, <2>2, <1>2, Arrays2
<1>4. GoodFills(p.fills, {"A", "B"})
  BY DEF dtrsm, GoodFills, Upload
<1>5. ReadsFilled("dtrsm", a, p) /\ WritesOwn(p)
  BY <1>3 DEF dtrsm, ReadsFilled, WritesOwn, Upload
<1>6. ASSUME p.accepts
      PROVE  \A k \in DOMAIN p.views : FitsIn(p.views[k], p.arrays)
  <2>1. p.views = <<View("A", a.A.r, a.A.c, a.A.r), View("B", m, n, m)>>
    BY <1>1, <1>6 DEF dtrsm
  <2>2. FitsIn(View("A", a.A.r, a.A.c, a.A.r), p.arrays)
    BY <1>1, <1>2, MatrixFits
  <2>3. FitsIn(View("B", m, n, m), p.arrays)
    BY <1>1, <1>2, MatrixFits
  <2>4. QED
    BY <2>1, <2>2, <2>3, Views
<1>7. QED
  BY <1>3, <1>4, <1>5, <1>6 DEF PlanOK, ViewsFit

\* C = op(A) t(op(A)) + beta C0
LEMMA dsyrkPlan == \A a \in Args("dsyrk") : PlanOK("dsyrk", a, dsyrk(a))
<1> SUFFICES ASSUME NEW a \in Args("dsyrk") PROVE PlanOK("dsyrk", a, dsyrk(a))
  OBVIOUS
<1> DEFINE p == dsyrk(a)
           n == IF parse_trans(a.opt.trans) THEN a.A.c ELSE a.A.r
<1>1. a.A.r \in Nat /\ a.A.c \in Nat /\ n \in Nat
  BY MatrixDims DEF Args
<1>2. p.arrays = <<Array("A", a.A.r * a.A.c), Array("C", n * n)>>
  BY DEF dsyrk
<1>3. GoodArrays(p.arrays) /\ IdsOf(p.arrays) = {"A", "C"}
  <2>1. a.A.r * a.A.c \in Int /\ n * n \in Int
    BY <1>1
  <2>2. "A" \in Scopes /\ "C" \in Scopes
    BY DEF Scopes, ArrayIds
  <2>3. QED
    BY <2>1, <2>2, <1>2, Arrays2
<1>4. GoodFills(p.fills, {"A", "C"})
  <2>1. CASE p.refuses
    <3>1. p.fills = <<Upload("A")>>
      BY <2>1 DEF dsyrk
    <3>2. QED
      BY <3>1 DEF GoodFills, Upload
  <2>2. CASE ~p.refuses
    <3>1. PICK f \in {Upload("C"), Memset("C")} : p.fills = <<Upload("A"), f>>
      BY <2>2 DEF dsyrk
    <3>2. f.op \in {"copy", "memset"} /\ f.to = "C"
      BY DEF Upload, Memset
    <3>3. QED
      BY <3>1, <3>2 DEF GoodFills, Upload
  <2>3. QED
    BY <2>1, <2>2
<1>5. ReadsFilled("dsyrk", a, p) /\ WritesOwn(p)
  <2>1. WritesOwn(p) /\ p.reads = <<"A", "C">>
    BY <1>3 DEF dsyrk, WritesOwn
  <2>2. CASE ~p.refuses /\ a.beta # 0
    <3>1. p.fills = <<Upload("A"), Upload("C")>>
      BY <2>2 DEF dsyrk
    <3>2. QED
      BY <2>1, <2>2, <3>1 DEF ReadsFilled, Upload
  <2>3. CASE ~p.refuses /\ a.beta = 0
    <3>1. p.fills = <<Upload("A"), Memset("C")>>
      BY <2>3 DEF dsyrk
    <3>2. QED
      BY <2>1, <2>3, <3>1 DEF ReadsFilled, Upload, Memset
  <2>4. QED
    BY <2>1, <2>2, <2>3 DEF ReadsFilled
<1>6. ASSUME p.accepts
      PROVE  \A k \in DOMAIN p.views : FitsIn(p.views[k], p.arrays)
  <2>1. p.views = <<View("A", a.A.r, a.A.c, a.A.r), View("C", n, n, n)>>
    BY <1>1, <1>6 DEF dsyrk
  <2>2. FitsIn(View("A", a.A.r, a.A.c, a.A.r), p.arrays)
    BY <1>1, <1>2, MatrixFits
  <2>3. FitsIn(View("C", n, n, n), p.arrays)
    BY <1>1, <1>2, MatrixFits
  <2>4. QED
    BY <2>1, <2>2, <2>3, Views
<1>7. QED
  BY <1>3, <1>4, <1>5, <1>6 DEF PlanOK, ViewsFit

\* The Cholesky factor.
LEMMA dpotrfPlan == \A a \in Args("dpotrf") : PlanOK("dpotrf", a, dpotrf(a))
<1> SUFFICES ASSUME NEW a \in Args("dpotrf") PROVE PlanOK("dpotrf", a, dpotrf(a))
  OBVIOUS
<1> DEFINE p == dpotrf(a)
           n == a.A.r
<1>1. n \in Nat
  BY MatrixDims DEF Args
<1>2. p.arrays = <<Array("A", n * n)>>
  BY DEF dpotrf
<1>3. GoodArrays(p.arrays) /\ IdsOf(p.arrays) = {"A"}
  <2>1. n * n \in Int
    BY <1>1
  <2>2. "A" \in Scopes
    BY DEF Scopes, ArrayIds
  <2>3. QED
    BY <2>1, <2>2, <1>2, Arrays1
<1>4. GoodFills(p.fills, {"A"})
  BY DEF dpotrf, GoodFills, Upload
<1>5. ReadsFilled("dpotrf", a, p) /\ WritesOwn(p)
  BY <1>3 DEF dpotrf, ReadsFilled, WritesOwn, Upload
<1>6. ASSUME p.accepts
      PROVE  \A k \in DOMAIN p.views : FitsIn(p.views[k], p.arrays)
  <2>1. p.views = <<View("A", n, n, n)>>
    BY <1>1, <1>6 DEF dpotrf
  <2>2. FitsIn(View("A", n, n, n), p.arrays)
    BY <1>1, <1>2, MatrixFits
  <2>3. QED
    BY <2>1, <2>2, Views
<1>7. QED
  BY <1>3, <1>4, <1>5, <1>6 DEF PlanOK, ViewsFit

\* The factors and the pivots of an LU factorization.
LEMMA dgetrfPlan == \A a \in Args("dgetrf") : PlanOK("dgetrf", a, dgetrf(a))
<1> SUFFICES ASSUME NEW a \in Args("dgetrf") PROVE PlanOK("dgetrf", a, dgetrf(a))
  OBVIOUS
<1> DEFINE p == dgetrf(a)
           m == a.A.r
           n == a.A.c
<1>1. m \in Nat /\ n \in Nat /\ Smaller(m, n) \in Nat
  BY MatrixDims DEF Args, Smaller
<1>2. p.arrays = <<Array("A", m * n), Array("piv", Smaller(m, n))>>
  BY DEF dgetrf
<1>3. GoodArrays(p.arrays) /\ IdsOf(p.arrays) = {"A", "piv"}
  <2>1. m * n \in Int /\ Smaller(m, n) \in Int
    BY <1>1
  <2>2. "A" \in Scopes /\ "piv" \in Scopes
    BY DEF Scopes, ArrayIds
  <2>3. QED
    BY <2>1, <2>2, <1>2, Arrays2
<1>4. GoodFills(p.fills, {"A", "piv"})
  BY DEF dgetrf, GoodFills, Upload
<1>5. ReadsFilled("dgetrf", a, p) /\ WritesOwn(p)
  BY <1>3 DEF dgetrf, ReadsFilled, WritesOwn, Upload
<1>6. ASSUME p.accepts
      PROVE  \A k \in DOMAIN p.views : FitsIn(p.views[k], p.arrays)
  <2>1. p.views = <<View("A", m, n, m), Vec("piv", Smaller(m, n))>>
    BY <1>1, <1>6 DEF dgetrf
  <2>2. FitsIn(View("A", m, n, m), p.arrays)
    BY <1>1, <1>2, MatrixFits
  <2>3. FitsIn(Vec("piv", Smaller(m, n)), p.arrays)
    BY <1>1, <1>2, VectorFits
  <2>4. QED
    BY <2>1, <2>2, <2>3, Views
<1>7. QED
  BY <1>3, <1>4, <1>5, <1>6 DEF PlanOK, ViewsFit

\* A right-hand side has a number of columns.
LEMMA RhsColumns == \A B \in Rhs : Cols(B) \in Nat
<1> TAKE B \in Rhs
<1>1. CASE B \in {[matrix |-> TRUE, r |-> M.r, c |-> M.c] : M \in Matrices}
  <2>1. PICK M \in Matrices : B = [matrix |-> TRUE, r |-> M.r, c |-> M.c]
    BY <1>1
  <2>2. QED
    BY <2>1, MatrixDims DEF Cols
<1>2. CASE B \in [matrix : {FALSE}, r : Lengths, c : {1}]
  BY <1>2 DEF Cols
<1>3. QED
  BY <1>1, <1>2 DEF Rhs

\* The solution by the factors of dgetrf.
LEMMA dgetrsPlan == \A a \in Args("dgetrs") : PlanOK("dgetrs", a, dgetrs(a))
<1> SUFFICES ASSUME NEW a \in Args("dgetrs") PROVE PlanOK("dgetrs", a, dgetrs(a))
  OBVIOUS
<1> DEFINE p == dgetrs(a)
           n == a.A.r
           nrhs == Cols(a.B)
<1>1. n \in Nat /\ nrhs \in Nat
  BY MatrixDims, RhsColumns DEF Args
<1>2. p.arrays = <<Array("A", n * n), Array("B", n * nrhs), Array("piv", n)>>
  BY DEF dgetrs
<1>3. GoodArrays(p.arrays) /\ IdsOf(p.arrays) = {"A", "B", "piv"}
  <2>1. n * n \in Int /\ n * nrhs \in Int /\ n \in Int
    BY <1>1
  <2>2. "A" \in Scopes /\ "B" \in Scopes /\ "piv" \in Scopes
    BY DEF Scopes, ArrayIds
  <2>3. QED
    BY <2>1, <2>2, <1>2, Arrays3
<1>4. GoodFills(p.fills, {"A", "B", "piv"})
  BY DEF dgetrs, GoodFills, Upload
<1>5. ReadsFilled("dgetrs", a, p) /\ WritesOwn(p)
  BY <1>3 DEF dgetrs, ReadsFilled, WritesOwn, Upload
<1>6. ASSUME p.accepts
      PROVE  \A k \in DOMAIN p.views : FitsIn(p.views[k], p.arrays)
  <2>1. p.views = <<View("A", n, n, n), Vec("piv", n), View("B", n, nrhs, n)>>
    BY <1>1, <1>6 DEF dgetrs
  <2>2. FitsIn(View("A", n, n, n), p.arrays)
    BY <1>1, <1>2, MatrixFits
  <2>3. FitsIn(Vec("piv", n), p.arrays)
    BY <1>1, <1>2, VectorFits
  <2>4. FitsIn(View("B", n, nrhs, n), p.arrays)
    BY <1>1, <1>2, MatrixFits
  <2>5. QED
    BY <2>1, <2>2, <2>3, <2>4, Views
<1>7. QED
  BY <1>3, <1>4, <1>5, <1>6 DEF PlanOK, ViewsFit

\* The solution by the factor of dpotrf.
LEMMA dpotrsPlan == \A a \in Args("dpotrs") : PlanOK("dpotrs", a, dpotrs(a))
<1> SUFFICES ASSUME NEW a \in Args("dpotrs") PROVE PlanOK("dpotrs", a, dpotrs(a))
  OBVIOUS
<1> DEFINE p == dpotrs(a)
           n == a.A.r
           nrhs == Cols(a.B)
<1>1. n \in Nat /\ nrhs \in Nat
  BY MatrixDims, RhsColumns DEF Args
<1>2. p.arrays = <<Array("A", n * n), Array("B", n * nrhs)>>
  BY DEF dpotrs
<1>3. GoodArrays(p.arrays) /\ IdsOf(p.arrays) = {"A", "B"}
  <2>1. n * n \in Int /\ n * nrhs \in Int
    BY <1>1
  <2>2. "A" \in Scopes /\ "B" \in Scopes
    BY DEF Scopes, ArrayIds
  <2>3. QED
    BY <2>1, <2>2, <1>2, Arrays2
<1>4. GoodFills(p.fills, {"A", "B"})
  BY DEF dpotrs, GoodFills, Upload
<1>5. ReadsFilled("dpotrs", a, p) /\ WritesOwn(p)
  BY <1>3 DEF dpotrs, ReadsFilled, WritesOwn, Upload
<1>6. ASSUME p.accepts
      PROVE  \A k \in DOMAIN p.views : FitsIn(p.views[k], p.arrays)
  <2>1. p.views = <<View("A", n, n, n), View("B", n, nrhs, n)>>
    BY <1>1, <1>6 DEF dpotrs
  <2>2. FitsIn(View("A", n, n, n), p.arrays)
    BY <1>1, <1>2, MatrixFits
  <2>3. FitsIn(View("B", n, nrhs, n), p.arrays)
    BY <1>1, <1>2, MatrixFits
  <2>4. QED
    BY <2>1, <2>2, <2>3, Views
<1>7. QED
  BY <1>3, <1>4, <1>5, <1>6 DEF PlanOK, ViewsFit

\* Every plan of a routine for arguments R can give it.
LEMMA GoodPlan == \A r \in Routines : \A a \in Args(r) : PlanOK(r, a, Plan(r, a))
  BY dgemmPlan, daxpyPlan, ddotPlan, dnrm2Plan, dscalPlan, dgemvPlan, dtrmmPlan, dtrsmPlan,
     dsyrkPlan, dpotrfPlan, dgetrfPlan, dgetrsPlan, dpotrsPlan
  DEF Routines, Plan

\* Only the routines that take a beta refuse after the uploads, and the two routines with
\* a number for a result are none of them.
LEMMA LateRefusal ==
  ASSUME NEW r \in Routines, NEW a
  PROVE  /\ r \notin {"dgemm", "dgemv", "dsyrk"} => ~Plan(r, a).refuses
         /\ Plan(r, a).writes = <<>> => r \in {"ddot", "dnrm2"}
  BY DEF Routines, Plan, dgemm, daxpy, ddot, dnrm2, dscal, dgemv, dtrmm, dtrsm, dsyrk, dpotrf,
         dgetrf, dgetrs, dpotrs

-----------------------------------------------------------------------------
(***************************************************************************)
(* The call in progress and its phases.                                    *)
(***************************************************************************)
Working == pc \in {"alloc", "fill", "launch", "solve", "info", "download"}

\* Between calls there is no call; during one the routine has arguments R can give it.
CallInv ==
  IF pc = "idle" THEN call = NoCall
  ELSE call.routine \in Routines /\ call.args \in Args(call.routine)

\* What the phases and the outcome say of the checks the call has passed.
PhaseInv ==
  /\ Working => plan.accepts /\ outcome = "none"
  /\ pc = "solve" => call.routine \in Factors
  /\ pc = "info" => call.routine \in Solvers
  /\ pc = "download" => ~plan.refuses
  /\ pc = "idle" => outcome = "none"
  /\ outcome = "refused" => ~plan.accepts \/ plan.refuses
  /\ outcome \in {"returned", "not definite"} => plan.accepts /\ ~plan.refuses
  /\ ~up => pc = "ended"

\* The stream is a sequence of operations.
IsQueue(q) == \E S : q \in Seq(S)

CallsInv == TypeOK /\ CallInv /\ PhaseInv /\ IsQueue(queue)

\* What appending to a queue does.
LEMMA Appended ==
  ASSUME NEW q, IsQueue(q), NEW e
  PROVE  /\ IsQueue(Append(q, e)) /\ Len(q) \in Nat /\ DOMAIN q = 1..Len(q)
         /\ Len(Append(q, e)) = Len(q) + 1 /\ DOMAIN Append(q, e) = 1..Len(q) + 1
         /\ \A i \in 1..Len(q) : Append(q, e)[i] = q[i]
         /\ Append(q, e)[Len(q) + 1] = e /\ Append(q, e) # <<>>
<1>1. PICK S : q \in Seq(S)
  BY DEF IsQueue
<1>2. q \in Seq(S \union {e}) /\ e \in S \union {e}
  BY <1>1
<1>3. Append(q, e) \in Seq(S \union {e})
  BY <1>2
<1>4. IsQueue(Append(q, e))
  BY <1>3 DEF IsQueue
<1>5. QED
  BY <1>2, <1>3, <1>4

\* What taking the first element away does.
LEMMA Tailed ==
  ASSUME NEW q, IsQueue(q), q # <<>>
  PROVE  /\ IsQueue(Tail(q)) /\ Len(q) \in Nat \ {0} /\ DOMAIN q = 1..Len(q)
         /\ Head(q) = q[1] /\ Len(Tail(q)) = Len(q) - 1 /\ DOMAIN Tail(q) = 1..Len(q) - 1
         /\ \A i \in 1..Len(q) - 1 : Tail(q)[i] = q[i + 1]
         /\ Len(q) = 1 => Tail(q) = <<>>
<1>1. PICK S : q \in Seq(S)
  BY DEF IsQueue
<1>2. Tail(q) \in Seq(S)
  BY <1>1
<1>3. IsQueue(Tail(q))
  BY <1>2 DEF IsQueue
<1>4. QED
  BY <1>1, <1>2, <1>3

\* Short queues.
LEMMA Short == IsQueue(<<>>) /\ \A e : IsQueue(<<e>>)
<1>1. <<>> \in Seq({}) /\ \A e : <<e>> \in Seq({e})
  OBVIOUS
<1>2. QED
  BY <1>1 DEF IsQueue

\* The kinds of operations on the stream.
OpsTyped(q) == \A i \in DOMAIN q : q[i].op \in {"copy", "memset", "kernel", "other"}

\* Only operations of these kinds are put on the stream, in order.
LEMMA StreamTyped ==
  ASSUME IsQueue(queue), OpsTyped(queue), CallsInv, [Next]_vars
  PROVE  IsQueue(queue') /\ OpsTyped(queue')
<1>1. ASSUME NEW e, e.op \in {"copy", "memset", "kernel", "other"}, queue' = Append(queue, e)
      PROVE  IsQueue(queue') /\ OpsTyped(queue')
  BY <1>1, Appended DEF OpsTyped
<1>2. ASSUME UNCHANGED queue PROVE IsQueue(queue') /\ OpsTyped(queue')
  BY <1>2
<1>3. CASE OtherWork
  BY <1>3, Short DEF OtherWork, OpsTyped
<1>4. CASE Fill
  <2>1. plan.fills[at].op \in {"copy", "memset"}
    <3>1. PlanOK(call.routine, call.args, plan) /\ at \in DOMAIN plan.fills
      BY <1>4, GoodPlan DEF Fill, CallsInv, CallInv, TypeOK, plan
    <3>2. QED
      BY <3>1 DEF PlanOK, GoodFills
  <2>2. CASE dev[plan.fills[at].to] = None
    <3>1. UNCHANGED queue
      BY <1>4, <2>2 DEF Fill
    <3>2. QED
      BY <1>2, <3>1
  <2>3. CASE dev[plan.fills[at].to] # None /\ plan.fills[at].op = "memset"
    <3>1. queue' = Append(queue, plan.fills[at])
      BY <1>4, <2>3 DEF Fill, Enqueue
    <3>2. QED
      BY <1>1, <2>3, <3>1
  <2>4. CASE dev[plan.fills[at].to] # None /\ plan.fills[at].op = "copy"
    <3> DEFINE e == [op |-> "copy", to |-> plan.fills[at].to, val |-> In(plan.fills[at].to)]
    <3>1. queue' = Append(queue, e) /\ e.op = "copy"
      BY <1>4, <2>4 DEF Fill, Enqueue
    <3> HIDE DEF e
    <3>2. QED
      BY <1>1, <3>1
  <2>5. QED
    BY <2>1, <2>2, <2>3, <2>4
<1>5. CASE LaunchBlas \/ LaunchSolver
  <2>1. Kernel.op = "kernel"
    BY DEF Kernel
  <2>2. QED
    BY <1>1, <1>2, <1>5, <2>1 DEF LaunchBlas, LaunchSolver, Enqueue
<1>6. CASE StreamStep
  BY <1>6, Tailed DEF StreamStep, Idle, OpsTyped
<1>7. CASE DeviceFault
  BY <1>7, Short DEF DeviceFault, OpsTyped
<1>8. CASE UNCHANGED queue
  BY <1>2, <1>8
<1>9. QED
  BY Zenon, <1>3, <1>4, <1>5, <1>6, <1>7, <1>8
  DEF Next, HostStep, vars, deviceVars, SetRunMode, Start, Allocate, RefuseLate, LaunchScalar,
      AllocateWork, ReadInfo, Download, Throw, Unwind, Return

\* The plan of the call in progress.
LEMMA OwnPlan ==
  ASSUME CallInv, pc # "idle"
  PROVE  PlanOK(call.routine, call.args, plan)
  BY GoodPlan DEF CallInv, plan

\* The lists of a plan.
LEMMA PlanLists ==
  ASSUME NEW r, NEW a, NEW p, PlanOK(r, a, p)
  PROVE  /\ DOMAIN p.arrays = 1..Len(p.arrays) /\ Len(p.arrays) \in 1..3 /\ 1 \in DOMAIN p.arrays
         /\ DOMAIN p.fills = 1..Len(p.fills) /\ Len(p.fills) \in 1..3 /\ 1 \in DOMAIN p.fills
<1>1. GoodArrays(p.arrays) /\ GoodFills(p.fills, IdsOf(p.arrays))
  BY DEF PlanOK
<1>2. DOMAIN p.arrays = 1..Len(p.arrays) /\ Len(p.arrays) \in 1..3
  BY <1>1 DEF GoodArrays
<1>3. DOMAIN p.fills = 1..Len(p.fills) /\ Len(p.fills) \in 1..3
  BY <1>1 DEF GoodFills
<1>4. \A n \in 1..3 : 1 \in 1..n
  OBVIOUS
<1>5. 1 \in DOMAIN p.arrays
  BY <1>2, <1>4, Zenon
<1>6. 1 \in DOMAIN p.fills
  BY <1>3, <1>4, Zenon
<1>7. QED
  BY <1>2, <1>3, <1>5, <1>6, Zenon

\* A step of a phase's loop stays in it, or the next phase begins at its first element.
LEMMA LoopStep ==
  ASSUME NEW n \in 1..3, at \in 1..n, NEW next, Advance(n, next)
  PROVE  /\ at' \in 1..3
         /\ \/ UNCHANGED pc /\ at' = at + 1 /\ at' \in 1..n
            \/ pc' = next /\ at' = 1 /\ at = n
  BY DEF Advance

\* The two halves of the type invariant.
DeviceTypes ==
  /\ placement \in {"CPU", "GPU"} /\ infoCell \in BOOLEAN /\ mode \in {"SYNC", "ASYNC"}
  /\ DOMAIN dev = ArrayIds /\ leaked \subseteq ArrayIds
  /\ info \in {0, 1} /\ fault \in BOOLEAN /\ up \in BOOLEAN
CallTypes ==
  /\ call.routine \in Routines \union {"none"}
  /\ pc \in {"idle", "alloc", "fill", "launch", "solve", "info", "download", "unwind", "ended"}
  /\ at \in 1..3
  /\ pc = "alloc" => at \in DOMAIN plan.arrays
  /\ pc = "fill" => at \in DOMAIN plan.fills
  /\ outcome \in {"none", "no context", "refused", "not definite", "error", "returned"}

\* They are all of it, now and in the next state.
LEMMA TypeParts ==
  /\ TypeOK <=> DeviceTypes /\ CallTypes /\ OpsTyped(queue)
  /\ TypeOK' <=> DeviceTypes' /\ CallTypes' /\ OpsTyped(queue')
  BY DEF TypeOK, DeviceTypes, CallTypes, OpsTyped

\* The invariant holds initially.
LEMMA CallsInvInit == Init => CallsInv
<1> SUFFICES ASSUME Init PROVE CallsInv
  OBVIOUS
<1>1. OpsTyped(queue) /\ IsQueue(queue)
  BY Short DEF OpsTyped, Init
<1>2. DeviceTypes
  BY DEF Init, DeviceTypes
<1>3. CallTypes /\ CallInv /\ PhaseInv
  BY DEF Init, CallTypes, CallInv, PhaseInv, Working, NoCall
<1>4. QED
  BY <1>1, <1>2, <1>3, TypeParts DEF CallsInv

\* The device and the context keep their types.
LEMMA DeviceTypesStep == CallsInv /\ [Next]_vars => DeviceTypes'
<1> SUFFICES ASSUME DeviceTypes, OpsTyped(queue), IsQueue(queue), [Next]_vars PROVE DeviceTypes'
  BY TypeParts DEF CallsInv
<1> USE DEF DeviceTypes
<1>1. CASE \E m \in {"SYNC", "ASYNC"} : SetRunMode(m)
  BY <1>1 DEF SetRunMode, deviceVars
<1>2. CASE Allocate
  BY <1>2 DEF Allocate, contextVars
<1>3. CASE AllocateWork
  BY <1>3 DEF AllocateWork, contextVars
<1>4. CASE ReadInfo
  BY <1>4 DEF ReadInfo, contextVars
<1>5. CASE Unwind
  BY <1>5 DEF Unwind, contextVars, Held
<1>6. CASE Return
  BY <1>6 DEF Return, contextVars
<1>7. CASE StreamStep
  <2>1. Head(queue).op \in {"copy", "memset", "kernel", "other"}
    BY <1>7, Tailed DEF StreamStep, Idle, OpsTyped
  <2>2. DOMAIN dev' = ArrayIds
    BY <1>7, <2>1 DEF StreamStep, Put
  <2>3. QED
    BY <1>7, <2>2 DEF StreamStep, contextVars
<1>8. CASE DeviceFault
  BY <1>8 DEF DeviceFault, contextVars
<1>9. CASE UNCHANGED <<contextVars, dev, leaked, info, fault, up>>
  BY <1>9 DEF contextVars
<1>10. QED
  BY Zenon, <1>1, <1>2, <1>3, <1>4, <1>5, <1>6, <1>7, <1>8, <1>9
  DEF Next, HostStep, vars, deviceVars, OtherWork, Start, Fill, RefuseLate, LaunchBlas, LaunchScalar,
      LaunchSolver, Download, Throw

\* Every step keeps the invariant.
LEMMA CallsInvStep == CallsInv /\ [Next]_vars => CallsInv'
<1> SUFFICES ASSUME CallsInv, [Next]_vars PROVE CallsInv'
  OBVIOUS
<1>1. CallTypes /\ CallInv /\ PhaseInv /\ up \in BOOLEAN
  BY TypeParts DEF CallsInv, DeviceTypes
<1>2. IsQueue(queue') /\ OpsTyped(queue') /\ DeviceTypes'
  BY StreamTyped, DeviceTypesStep, TypeParts DEF CallsInv
<1>3. SUFFICES CallTypes' /\ CallInv' /\ PhaseInv'
  BY <1>2, TypeParts DEF CallsInv
<1>4. ASSUME UNCHANGED call PROVE plan' = plan
  BY <1>4 DEF plan
<1> USE DEF CallTypes, CallInv, PhaseInv, Working
<1>5. CASE UNCHANGED <<call, pc, at, outcome, up>>
  BY <1>1, <1>4, <1>5
<1>6. CASE \E r \in Routines : \E a \in Args(r) : Start(r, a)
  <2> PICK r \in Routines : \E a \in Args(r) : Start(r, a)
    BY <1>6
  <2>1. PICK a \in Args(r) : Start(r, a)
    OBVIOUS
  <2>2. call'.routine = r /\ call'.args = a /\ plan' = Plan(r, a)
    BY <2>1 DEF Start, plan
  <2>3. PlanOK(r, a, Plan(r, a))
    BY GoodPlan
  <2>4. 1 \in DOMAIN Plan(r, a).arrays
    BY <2>3, PlanLists
  <2>5. CallInv' /\ PhaseInv'
    BY <1>1, <2>1, <2>2 DEF Start
  <2>6. CallTypes'
    <3>1. at' = 1
      BY <2>1, Zenon DEF Start
    <3>2. pc' \in {"alloc", "ended"} /\ outcome' \in {"none", "no context", "refused"}
      BY <2>1 DEF Start
    <3>3. pc' = "alloc" => at' \in DOMAIN plan'.arrays
      BY <2>2, <2>4, <3>1, Zenon
    <3>4. at' \in 1..3
      BY <3>1
    <3>5. call'.routine \in Routines \union {"none"}
      BY <2>2, Zenon
    <3>6. QED
      BY <3>2, <3>3, <3>4, <3>5
  <2>7. QED
    BY <2>5, <2>6
<1>7. CASE Allocate
  <2>1. PlanOK(call.routine, call.args, plan)
    BY <1>1, <1>7, OwnPlan DEF Allocate
  <2>2. DOMAIN plan.arrays = 1..Len(plan.arrays) /\ Len(plan.arrays) \in 1..3 /\ 1 \in DOMAIN plan.fills
    BY <2>1, PlanLists
  <2>3. /\ at' \in 1..3
        /\ \/ UNCHANGED pc /\ at' = at + 1 /\ at' \in DOMAIN plan.arrays
           \/ pc' = "fill" /\ at' = 1 /\ at = Len(plan.arrays)
    BY <1>1, <1>7, <2>2, LoopStep DEF Allocate
  <2>4. QED
    BY <1>1, <1>4, <1>7, <2>2, <2>3 DEF Allocate
<1>8. CASE Fill
  <2>1. PlanOK(call.routine, call.args, plan)
    BY <1>1, <1>8, OwnPlan DEF Fill
  <2>2. DOMAIN plan.fills = 1..Len(plan.fills) /\ Len(plan.fills) \in 1..3
    BY <2>1, PlanLists
  <2>3. /\ at' \in 1..3
        /\ \/ UNCHANGED pc /\ at' = at + 1 /\ at' \in DOMAIN plan.fills
           \/ pc' = "launch" /\ at' = 1 /\ at = Len(plan.fills)
    BY <1>1, <1>8, <2>2, LoopStep DEF Fill
  <2>4. QED
    BY <1>1, <1>4, <1>8, <2>3 DEF Fill
<1>9. CASE RefuseLate
  BY <1>1, <1>4, <1>9 DEF RefuseLate
<1>10. CASE LaunchBlas
  BY <1>1, <1>4, <1>10 DEF LaunchBlas
<1>11. CASE LaunchScalar
  <2>1. ~plan.refuses
    BY <1>1, <1>11, LateRefusal DEF LaunchScalar, plan
  <2>2. QED
    BY <1>1, <1>4, <1>11, <2>1 DEF LaunchScalar
<1>12. CASE AllocateWork
  BY <1>1, <1>4, <1>12 DEF AllocateWork
<1>13. CASE LaunchSolver
  BY <1>1, <1>4, <1>13 DEF LaunchSolver, Solvers
<1>14. CASE ReadInfo
  <2>1. ~plan.refuses
    BY <1>1, <1>14, LateRefusal DEF ReadInfo, Solvers, Factors, plan
  <2>2. QED
    BY <1>1, <1>4, <1>14, <2>1 DEF ReadInfo
<1>15. CASE Download
  BY <1>1, <1>4, <1>15 DEF Download
<1>16. CASE Throw
  BY <1>1, <1>4, <1>16 DEF Throw
<1>17. CASE Unwind
  BY <1>1, <1>4, <1>17 DEF Unwind
<1>18. CASE Return
  <2>1. CallInv' /\ PhaseInv'
    BY <1>1, <1>18 DEF Return
  <2>2. CallTypes'
    BY <1>18 DEF Return, NoCall
  <2>3. QED
    BY <2>1, <2>2
<1> HIDE DEF CallTypes, CallInv, PhaseInv, Working
<1>19. QED
  BY Zenon, <1>5, <1>6, <1>7, <1>8, <1>9, <1>10, <1>11, <1>12, <1>13, <1>14, <1>15, <1>16, <1>17,
     <1>18
  DEF Next, HostStep, vars, SetRunMode, OtherWork, StreamStep, DeviceFault

\* The call in progress, its phase and the stream are what the routines expect: the
\* loops over arrays and uploads never leave their lists, a solver's phases belong to
\* solvers, and a call that was refused did not pass its checks.
THEOREM CallsInvariance == Spec => []CallsInv
<1>1. CallsInv /\ [Next]_vars => CallsInv'
  BY CallsInvStep
<1>2. QED
  BY <1>1, CallsInvInit, PTL DEF Spec

\* The variables keep their types.
THEOREM TypeCorrect == Spec => []TypeOK
<1>1. CallsInv => TypeOK
  BY DEF CallsInv
<1>2. QED
  BY <1>1, CallsInvariance, PTL

-----------------------------------------------------------------------------
(***************************************************************************)
(* The checks of the arguments.                                            *)
(***************************************************************************)
\* IntLengths for given arguments.
ShortArgs(r, a) ==
  /\ r \in {"daxpy", "ddot", "dnrm2", "dscal", "dgemv"} => a.x < 2^(IntWidth - 1)
  /\ r \in {"daxpy", "ddot", "dgemv"} => a.y < 2^(IntWidth - 1)
  /\ r = "dgetrs" => a.piv < 2^(IntWidth - 1)
  /\ r \in {"dgetrs", "dpotrs"} => a.B.r < 2^(IntWidth - 1)

\* A plan goes through with the arguments exactly when the operation is defined for them,
\* and then has the right shape.
Exact(p, ref) ==
  /\ p.accepts /\ ~p.refuses <=> ref.defined
  /\ p.accepts /\ ~p.refuses => p.shape = ref.shape

\* dgemm
LEMMA dgemmExact == \A a \in Args("dgemm") : Exact(dgemm(a), Reference("dgemm", a))
<1> TAKE a \in Args("dgemm")
<1> DEFINE M == Op(a.A, a.transA)
           N == Op(a.B, a.transB)
<1>1. Reference("dgemm", a) = Also(a.beta = 0, Product(M, N))
  BY DEF Reference
<1>2. /\ dgemm(a).accepts <=> M.c = N.r
      /\ dgemm(a).refuses <=> a.beta # 0
      /\ dgemm(a).shape = <<M.r, N.c>>
  BY DEF dgemm, Op
<1> HIDE DEF M, N
<1>3. /\ Reference("dgemm", a).defined <=> M.c = N.r /\ a.beta = 0
      /\ Reference("dgemm", a).shape = <<M.r, N.c>>
  BY <1>1 DEF Also, Product
<1>4. QED
  BY <1>2, <1>3 DEF Exact

\* The vector routines.
LEMMA VectorExact ==
  /\ \A a \in Args("daxpy") : ShortArgs("daxpy", a) => Exact(daxpy(a), Reference("daxpy", a))
  /\ \A a \in Args("ddot") : ShortArgs("ddot", a) => Exact(ddot(a), Reference("ddot", a))
  /\ \A a \in Args("dnrm2") : Exact(dnrm2(a), Reference("dnrm2", a))
  /\ \A a \in Args("dscal") : ShortArgs("dscal", a) => Exact(dscal(a), Reference("dscal", a))
<1>1. ASSUME NEW n \in Lengths, n < 2^(IntWidth - 1) PROVE ToInt(n) = n
  BY <1>1, ToIntFacts, LinalgAssumption
<1>2. ASSUME NEW a \in Args("daxpy"), ShortArgs("daxpy", a)
      PROVE  Exact(daxpy(a), Reference("daxpy", a))
  <2>1. ToInt(a.x) = a.x /\ ToInt(a.y) = a.y
    BY <1>1, <1>2 DEF Args, ShortArgs
  <2>2. QED
    BY <2>1 DEF Exact, daxpy, Reference
<1>3. ASSUME NEW a \in Args("ddot"), ShortArgs("ddot", a)
      PROVE  Exact(ddot(a), Reference("ddot", a))
  <2>1. ToInt(a.x) = a.x /\ ToInt(a.y) = a.y
    BY <1>1, <1>3 DEF Args, ShortArgs
  <2>2. QED
    BY <2>1 DEF Exact, ddot, Reference, Product, Op, Column
<1>4. ASSUME NEW a \in Args("dnrm2") PROVE Exact(dnrm2(a), Reference("dnrm2", a))
  BY DEF Exact, dnrm2, Reference
<1>5. ASSUME NEW a \in Args("dscal"), ShortArgs("dscal", a)
      PROVE  Exact(dscal(a), Reference("dscal", a))
  <2>1. ToInt(a.x) = a.x
    BY <1>1, <1>5 DEF Args, ShortArgs
  <2>2. QED
    BY <2>1 DEF Exact, dscal, Reference
<1>6. QED
  BY <1>2, <1>3, <1>4, <1>5

\* dgemv
LEMMA dgemvExact ==
  \A a \in Args("dgemv") : ShortArgs("dgemv", a) => Exact(dgemv(a), Reference("dgemv", a))
<1> SUFFICES ASSUME NEW a \in Args("dgemv"), ShortArgs("dgemv", a)
             PROVE  Exact(dgemv(a), Reference("dgemv", a))
  OBVIOUS
<1> DEFINE M == Op(a.A, a.trans)
<1>1. Reference("dgemv", a) = Also(a.beta # 0 => a.y = M.r, Product(M, Column(a.x)))
  BY DEF Reference
<1>2. a.A \in Matrices /\ a.x \in Nat /\ a.y \in Nat \union {NotGiven}
  BY LinalgAssumption DEF Args
<1>3. ToInt(a.x) = a.x /\ (a.y # NotGiven => ToInt(a.y) = a.y)
  BY <1>2, ToIntFacts DEF ShortArgs
<1>4. M.r \in Nat /\ M.r # NotGiven
  BY <1>2, MatrixDims DEF Op, NotGiven
<1>5. Column(a.x).r = a.x /\ Column(a.x).c = 1
  BY DEF Column
<1>6. /\ dgemv(a).accepts <=> ToInt(a.x) = M.c
      /\ dgemv(a).refuses <=> a.beta # 0 /\ (a.y = NotGiven \/ ToInt(a.y) # M.r)
      /\ dgemv(a).shape = <<M.r, 1>>
  BY DEF dgemv, Op
<1> HIDE DEF M
<1>7. /\ Reference("dgemv", a).defined <=> M.c = a.x /\ (a.beta # 0 => a.y = M.r)
      /\ Reference("dgemv", a).shape = <<M.r, 1>>
  BY <1>1, <1>5 DEF Also, Product
<1>8. QED
  BY <1>3, <1>4, <1>6, <1>7 DEF Exact

\* dtrmm and dtrsm
LEMMA TriangularExact ==
  /\ \A a \in Args("dtrmm") : Exact(dtrmm(a), Reference("dtrmm", a))
  /\ \A a \in Args("dtrsm") : Exact(dtrsm(a), Reference("dtrsm", a))
<1>1. ASSUME NEW A, NEW B, NEW o, NEW p, NEW ref,
             ref = Also(GoodOptions(o) /\ Square(A),
                        IF o.side \in {"L", "l"} THEN Product(A, B) ELSE Product(B, A)),
             LET size == IF o.side \in {"L", "l"} THEN B.r ELSE B.c
             IN p.accepts <=> GoodOptions(o) /\ A.r = size /\ A.c = size,
             ~p.refuses, p.shape = <<B.r, B.c>>
      PROVE  Exact(p, ref)
  <2>1. CASE o.side \in {"L", "l"}
    <3>1. ref = Also(GoodOptions(o) /\ Square(A), Product(A, B))
      BY <1>1, <2>1, Zenon
    <3>2. (ref.defined <=> A.c = B.r /\ GoodOptions(o) /\ A.r = A.c) /\ ref.shape = <<A.r, B.c>>
      BY <3>1 DEF Square, Also, Product
    <3>3. QED
      BY <1>1, <2>1, <3>2 DEF Exact
  <2>2. CASE o.side \notin {"L", "l"}
    <3>1. ref = Also(GoodOptions(o) /\ Square(A), Product(B, A))
      BY <1>1, <2>2, Zenon
    <3>2. (ref.defined <=> B.c = A.r /\ GoodOptions(o) /\ A.r = A.c) /\ ref.shape = <<B.r, A.c>>
      BY <3>1 DEF Square, Also, Product
    <3>3. QED
      BY <1>1, <2>2, <3>2 DEF Exact
  <2>3. QED
    BY <2>1, <2>2
<1>2. ASSUME NEW a PROVE Exact(dtrmm(a), Reference("dtrmm", a))
  <2> DEFINE p == dtrmm(a)
             ref == Reference("dtrmm", a)
  <2>1. ref = Also(GoodOptions(a.opt) /\ Square(a.A),
                   IF a.opt.side \in {"L", "l"} THEN Product(a.A, a.B) ELSE Product(a.B, a.A))
    BY DEF Reference
  <2>2. /\ LET size == IF a.opt.side \in {"L", "l"} THEN a.B.r ELSE a.B.c
           IN p.accepts <=> GoodOptions(a.opt) /\ a.A.r = size /\ a.A.c = size
        /\ ~p.refuses /\ p.shape = <<a.B.r, a.B.c>>
    BY DEF dtrmm, parse_side_left
  <2> HIDE DEF p, ref
  <2>3. Exact(p, ref)
    BY <1>1, <2>1, <2>2
  <2>4. QED
    BY <2>3 DEF p, ref
<1>3. ASSUME NEW a PROVE Exact(dtrsm(a), Reference("dtrsm", a))
  <2> DEFINE p == dtrsm(a)
             ref == Reference("dtrsm", a)
  <2>1. ref = Also(GoodOptions(a.opt) /\ Square(a.A),
                   IF a.opt.side \in {"L", "l"} THEN Product(a.A, a.B) ELSE Product(a.B, a.A))
    BY DEF Reference
  <2>2. /\ LET size == IF a.opt.side \in {"L", "l"} THEN a.B.r ELSE a.B.c
           IN p.accepts <=> GoodOptions(a.opt) /\ a.A.r = size /\ a.A.c = size
        /\ ~p.refuses /\ p.shape = <<a.B.r, a.B.c>>
    BY DEF dtrsm, parse_side_left
  <2> HIDE DEF p, ref
  <2>3. Exact(p, ref)
    BY <1>1, <2>1, <2>2
  <2>4. QED
    BY <2>3 DEF p, ref
<1>4. QED
  BY <1>2, <1>3

\* dsyrk
LEMMA dsyrkExact == \A a \in Args("dsyrk") : Exact(dsyrk(a), Reference("dsyrk", a))
<1> TAKE a \in Args("dsyrk")
<1> DEFINE M == Op(a.A, a.opt.trans \notin {"N", "n"})
           T == parse_trans(a.opt.trans)
           n == IF T THEN a.A.c ELSE a.A.r
<1>1. Reference("dsyrk", a) =
        Also(/\ GoodOptions(a.opt) /\ M.r * M.c # 0
             /\ a.beta # 0 => a.C = [r |-> M.r, c |-> M.r], Product(M, Op(M, TRUE)))
  BY DEF Reference
<1>2. /\ Reference("dsyrk", a).defined <=>
           /\ GoodOptions(a.opt) /\ M.r * M.c # 0
           /\ a.beta # 0 => a.C = [r |-> M.r, c |-> M.r]
      /\ Reference("dsyrk", a).shape = <<M.r, M.r>>
  BY <1>1 DEF Also, Product, Op
<1>3. GoodOptions(a.opt) => (a.opt.trans \notin {"N", "n"} <=> T)
  BY DEF GoodOptions, parse_trans
<1>4. GoodOptions(a.opt) => M.r = n
  BY <1>3 DEF Op
<1>5. a.A.r \in Nat /\ a.A.c \in Nat
  BY MatrixDims DEF Args
<1>6. M.r * M.c # 0 <=> a.A.r # 0 /\ a.A.c # 0
  <2>1. \/ M.r = a.A.r /\ M.c = a.A.c
        \/ M.r = a.A.c /\ M.c = a.A.r
    BY DEF Op
  <2>2. \A i, k \in Nat : i * k # 0 <=> i # 0 /\ k # 0
    OBVIOUS
  <2>3. QED
    BY <1>5, <2>1, <2>2
<1>7. /\ dsyrk(a).accepts <=> GoodOptions(a.opt) /\ a.A.r # 0 /\ a.A.c # 0
      /\ dsyrk(a).refuses <=> a.beta # 0 /\ a.C # [r |-> n, c |-> n]
      /\ dsyrk(a).shape = <<n, n>>
  BY DEF dsyrk
<1> HIDE DEF M, T, n
<1>8. QED
  BY <1>2, <1>4, <1>6, <1>7 DEF Exact

\* The factorizations.
LEMMA FactorExact ==
  /\ \A a \in Args("dpotrf") : Exact(dpotrf(a), Reference("dpotrf", a))
  /\ \A a \in Args("dgetrf") : Exact(dgetrf(a), Reference("dgetrf", a))
<1>1. ASSUME NEW a PROVE Exact(dpotrf(a), Reference("dpotrf", a))
  BY DEF Exact, dpotrf, Reference, Square
<1>2. ASSUME NEW a PROVE Exact(dgetrf(a), Reference("dgetrf", a))
  BY DEF Exact, dgetrf, Reference
<1>3. QED
  BY <1>1, <1>2

\* A right-hand side whose length an int can hold has its own rows and columns.
LEMMA RhsExact == \A B \in Rhs : B.r < 2^(IntWidth - 1) => Rows(B) = B.r /\ Cols(B) = B.c
<1> TAKE B \in Rhs
<1>1. CASE B \in {[matrix |-> TRUE, r |-> M.r, c |-> M.c] : M \in Matrices}
  BY <1>1 DEF Rows, Cols
<1>2. CASE B \in [matrix : {FALSE}, r : Lengths, c : {1}]
  BY <1>2, ToIntFacts, LinalgAssumption DEF Rows, Cols
<1>3. QED
  BY <1>1, <1>2 DEF Rhs

\* The solvers.
LEMMA SolverExact ==
  /\ \A a \in Args("dgetrs") : ShortArgs("dgetrs", a) => Exact(dgetrs(a), Reference("dgetrs", a))
  /\ \A a \in Args("dpotrs") : ShortArgs("dpotrs", a) => Exact(dpotrs(a), Reference("dpotrs", a))
<1>1. ASSUME NEW a \in Args("dgetrs"), ShortArgs("dgetrs", a)
      PROVE  Exact(dgetrs(a), Reference("dgetrs", a))
  <2>1. ToInt(a.piv) = a.piv /\ Rows(a.B) = a.B.r /\ Cols(a.B) = a.B.c
    BY <1>1, ToIntFacts, RhsExact, LinalgAssumption DEF Args, ShortArgs
  <2>2. Reference("dgetrs", a) = Also(Square(a.A) /\ a.piv = a.A.r, Product(a.A, a.B))
    BY DEF Reference
  <2>3. /\ Reference("dgetrs", a).defined <=> a.A.c = a.B.r /\ a.A.r = a.A.c /\ a.piv = a.A.r
        /\ Reference("dgetrs", a).shape = <<a.A.r, a.B.c>>
    BY <2>2 DEF Also, Product, Square
  <2>4. QED
    BY <2>1, <2>3 DEF Exact, dgetrs
<1>2. ASSUME NEW a \in Args("dpotrs"), ShortArgs("dpotrs", a)
      PROVE  Exact(dpotrs(a), Reference("dpotrs", a))
  <2>1. Rows(a.B) = a.B.r /\ Cols(a.B) = a.B.c
    BY <1>2, RhsExact DEF Args, ShortArgs
  <2>2. Reference("dpotrs", a) = Also(Square(a.A), Product(a.A, a.B))
    BY DEF Reference
  <2>3. /\ Reference("dpotrs", a).defined <=> a.A.c = a.B.r /\ a.A.r = a.A.c
        /\ Reference("dpotrs", a).shape = <<a.A.r, a.B.c>>
    BY <2>2 DEF Also, Product, Square
  <2>4. QED
    BY <2>1, <2>3 DEF Exact, dpotrs
<1>3. QED
  BY <1>1, <1>2

\* The checks of all thirteen routines, before and after the uploads, are exact for
\* lengths that an int can hold.
THEOREM PlansAreExact ==
  \A r \in Routines : \A a \in Args(r) : ShortArgs(r, a) => Exact(Plan(r, a), Reference(r, a))
  BY dgemmExact, VectorExact, dgemvExact, TriangularExact, dsyrkExact, FactorExact, SolverExact
  DEF Routines, Plan

\* A call is refused for its arguments exactly when the operation is not defined for them.
THEOREM RefusalsExact == Spec => []ChecksAreExact
<1>1. CallsInv => ChecksAreExact
  <2> SUFFICES ASSUME CallsInv, pc = "ended", IntLengths
               PROVE  /\ outcome = "refused" => ~Reference(call.routine, call.args).defined
                      /\ outcome \in {"returned", "not definite"}
                           => Reference(call.routine, call.args).defined
    BY DEF ChecksAreExact
  <2>1. call.routine \in Routines /\ call.args \in Args(call.routine)
    BY DEF CallsInv, CallInv
  <2>2. ShortArgs(call.routine, call.args)
    BY DEF IntLengths, ShortArgs
  <2>3. Exact(plan, Reference(call.routine, call.args))
    BY <2>1, <2>2, PlansAreExact DEF plan
  <2>4. QED
    BY <2>3 DEF CallsInv, PhaseInv, Exact
<1>2. QED
  BY <1>1, CallsInvariance, PTL
=============================================================================
