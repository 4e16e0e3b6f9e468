--------------------------- MODULE GpuDeviceProofs ---------------------------
(***************************************************************************)
(* Proofs about the device in module GpuLinalg: its arrays, its stream and *)
(* the values that come back from it.                                      *)
(*                                                                         *)
(* What is said of the stream is said by operators of a queue q, a list s  *)
(* of arrays and the contents d of the device, which know no variable.     *)
(***************************************************************************)
EXTENDS GpuLinalgProofs

\* Arrays and memory: all of a list's arrays have it, those before the n-th, none.
HasMemory(a, d) == a.size >= 0 /\ (d[a.id] = None <=> a.size = 0)
Allocated(s, d) == \A i \in DOMAIN s : HasMemory(s[i], d)
AllocatedTo(s, d, n) == \A i \in DOMAIN s : IF i < n THEN HasMemory(s[i], d) ELSE d[s[i].id] = None
AllFree(d) == \A x \in ArrayIds : d[x] = None
InScope(s, d) == \A x \in ArrayIds : d[x] # None => x \in IdsOf(s) \union {"work"}
SameMemory(d, e) == \A x \in Scopes : d[x] = None <=> e[x] = None

\* An operation that touches no memory, and one that touches only memory that is there.
Harmless(op) ==
  /\ op.op \notin {"copy", "memset"}
  /\ op.op = "kernel" => \A k \in DOMAIN op.views : op.views[k].rows * op.views[k].cols = 0
LiesIn(v, s, d) ==
  \/ v.rows * v.cols = 0
  \/ \E i \in DOMAIN s : s[i].id = v.id /\ d[v.id] # None /\ v.ld * (v.cols - 1) + v.rows <= s[i].size
Live(op, s, d) ==
  /\ op.op = "kernel" => \A k \in DOMAIN op.views : LiesIn(op.views[k], s, d)
  /\ op.op \in {"copy", "memset"} => op.to \in IdsOf(s) /\ d[op.to] # None
Uploads(op) == op.op = "copy" => op.val.is = "argument"

AllHarmless(q) == \A i \in DOMAIN q : Harmless(q[i])
AllLive(q, s, d) == \A i \in DOMAIN q : Live(q[i], s, d)
AllUploads(q) == \A i \in DOMAIN q : Uploads(q[i])

\* Between calls there is no memory; during one only arrays of the call and the work
\* space have it, and after the allocations all of its arrays do.
MemoryInv ==
  /\ pc \in {"idle", "ended"} /\ up => AllFree(dev)
  /\ Working \/ pc = "unwind" => InScope(plan.arrays, dev)
  /\ pc = "alloc" => AllocatedTo(plan.arrays, dev, at)
  /\ Working /\ pc # "alloc" => Allocated(plan.arrays, dev)
  /\ leaked \subseteq {"work"}

\* What earlier calls left on the stream touches no memory.
StreamInv ==
  /\ AllUploads(queue)
  /\ pc \in {"idle", "ended", "alloc"} /\ up => AllHarmless(queue)
  /\ pc # "idle" => AllLive(queue, plan.arrays, dev)

DeviceInv == CallsInv /\ MemoryInv /\ StreamInv

-----------------------------------------------------------------------------
\* The kinds of contents are different.
LEMMA Kinds ==
  /\ Junk # None /\ Zero # None
  /\ \A v : v.is = "argument" => v # None
  /\ \A v : v.is = "computed" => v # None
  BY DEF Junk, Zero, None

\* What is harmless is so for any arrays.
LEMMA HarmlessLive == ASSUME NEW q, AllHarmless(q), NEW s, NEW d PROVE AllLive(q, s, d)
  BY DEF AllHarmless, Harmless, AllLive, Live, LiesIn

\* What touches only memory that is there touches none when there is none.
LEMMA LiveFree ==
  ASSUME NEW q, NEW s, NEW d, AllLive(q, s, d), \A x \in IdsOf(s) : d[x] = None
  PROVE  AllHarmless(q)
<1> SUFFICES ASSUME NEW i \in DOMAIN q PROVE Harmless(q[i])
  BY DEF AllHarmless
<1>1. Live(q[i], s, d)
  BY DEF AllLive
<1>2. \A k \in DOMAIN s : d[s[k].id] = None
  BY DEF IdsOf
<1>3. QED
  BY <1>1, <1>2 DEF Live, LiesIn, Harmless

\* Only which arrays have memory counts, not their contents.
LEMMA MemoryFrame ==
  ASSUME NEW s, GoodArrays(s), NEW d, NEW e, SameMemory(d, e)
  PROVE  /\ \A q : AllLive(q, s, d) => AllLive(q, s, e)
         /\ Allocated(s, d) => Allocated(s, e)
<1>1. \A i \in DOMAIN s : d[s[i].id] = None <=> e[s[i].id] = None
  BY DEF GoodArrays, SameMemory
<1>2. Allocated(s, d) => Allocated(s, e)
  BY <1>1 DEF Allocated, HasMemory
<1>3. \A v : LiesIn(v, s, d) => LiesIn(v, s, e)
  BY <1>1 DEF LiesIn
<1>4. \A x \in IdsOf(s) : d[x] = None <=> e[x] = None
  BY <1>1 DEF IdsOf
<1>5. \A op : Live(op, s, d) => Live(op, s, e)
  BY <1>3, <1>4 DEF Live
<1>6. QED
  BY <1>2, <1>5 DEF AllLive

\* Appending an operation to the stream.
LEMMA AppendStream ==
  ASSUME NEW q, IsQueue(q), NEW op, NEW s, NEW d
  PROVE  /\ AllUploads(q) /\ Uploads(op) => AllUploads(Append(q, op))
         /\ AllLive(q, s, d) /\ Live(op, s, d) => AllLive(Append(q, op), s, d)
<1>1. \A i \in DOMAIN Append(q, op) : Append(q, op)[i] = op \/ (i \in DOMAIN q /\ Append(q, op)[i] = q[i])
  BY Appended
<1>2. QED
  BY <1>1 DEF AllUploads, AllLive

\* Taking the first one away.
LEMMA TailStream ==
  ASSUME NEW q, IsQueue(q), q # <<>>
  PROVE  /\ AllUploads(q) => AllUploads(Tail(q)) /\ Uploads(Head(q))
         /\ AllHarmless(q) => AllHarmless(Tail(q))
         /\ \A s, d : AllLive(q, s, d) => AllLive(Tail(q), s, d)
<1>1. \A i \in DOMAIN Tail(q) : i + 1 \in DOMAIN q /\ Tail(q)[i] = q[i + 1]
  BY Tailed
<1>2. Head(q) = q[1] /\ 1 \in DOMAIN q
  BY Tailed
<1>3. QED
  BY <1>1, <1>2 DEF AllUploads, AllHarmless, AllLive

\* An empty stream.
LEMMA EmptyStream == AllUploads(<<>>) /\ AllHarmless(<<>>) /\ \A s, d : AllLive(<<>>, s, d)
  BY DEF AllUploads, AllHarmless, AllLive

\* The library's views lie in the arrays of the call once they are allocated.
LEMMA ViewsLie ==
  ASSUME NEW s, NEW d, Allocated(s, d), NEW v, FitsIn(v, s)
  PROVE  LiesIn(v, s, d)
  BY DEF Allocated, HasMemory, FitsIn, LiesIn

\* Working off the stream neither gives memory to an array nor takes it.
LEMMA StreamMemory ==
  ASSUME CallsInv, AllUploads(queue), StreamStep
  PROVE  \A x \in ArrayIds : dev'[x] = None <=> dev[x] = None
<1> DEFINE op == Head(queue)
<1>1. DOMAIN dev = ArrayIds /\ OpsTyped(queue) /\ IsQueue(queue) /\ queue # <<>>
  BY TypeParts DEF CallsInv, DeviceTypes, StreamStep, Idle
<1>2. op.op \in {"copy", "memset", "kernel", "other"} /\ Uploads(op)
  BY <1>1, Tailed, TailStream DEF OpsTyped
<1>3. \A r, reads, x : Computed(r, reads, x) # None
  BY DEF Computed, None
<1>4. Zero # None /\ (op.op = "copy" => op.val # None)
  BY <1>2, Kinds DEF Uploads
<1>5. CASE op.op = "copy"
  <2>1. dev' = Put(op.to, op.val)
    BY <1>5 DEF StreamStep
  <2>2. QED
    BY <1>1, <1>4, <1>5, <2>1 DEF Put
<1>6. CASE op.op = "memset"
  <2>1. dev' = Put(op.to, Zero)
    BY <1>6 DEF StreamStep
  <2>2. QED
    BY <1>1, <1>4, <2>1 DEF Put
<1>7. CASE op.op = "kernel"
  <2>1. dev' = [x \in ArrayIds |-> IF x \in Range(op.writes) /\ dev[x] # None
                                  THEN Computed(op.by, op.reads, x) ELSE dev[x]]
    BY <1>7 DEF StreamStep
  <2>2. QED
    BY <1>3, <2>1
<1>8. CASE op.op = "other"
  BY <1>8 DEF StreamStep
<1>9. QED
  BY <1>2, <1>5, <1>6, <1>7, <1>8

\* The invariant holds initially.
LEMMA DeviceInvInit == Init => DeviceInv
<1> SUFFICES ASSUME Init PROVE DeviceInv
  OBVIOUS
<1>1. AllFree(dev) /\ leaked \subseteq {"work"}
  BY DEF Init, AllFree
<1>2. queue = <<>> /\ pc = "idle"
  BY DEF Init
<1>3. MemoryInv /\ StreamInv
  BY <1>1, <1>2, EmptyStream DEF MemoryInv, StreamInv, Working
<1>4. QED
  BY <1>3, CallsInvInit DEF DeviceInv

\* Every step keeps the invariant.
LEMMA DeviceInvStep == DeviceInv /\ [Next]_vars => DeviceInv'
<1> SUFFICES ASSUME DeviceInv, [Next]_vars PROVE MemoryInv' /\ StreamInv'
  BY CallsInvStep DEF DeviceInv
<1>1. CallsInv /\ MemoryInv /\ StreamInv /\ IsQueue(queue) /\ CallInv /\ PhaseInv
  BY DEF DeviceInv, CallsInv
<1>2. CallTypes /\ DOMAIN dev = ArrayIds
  BY <1>1, TypeParts DEF CallsInv, DeviceTypes
<1>3. ASSUME UNCHANGED call PROVE plan' = plan
  BY <1>3 DEF plan
<1>4. ASSUME pc # "idle" PROVE PlanOK(call.routine, call.args, plan) /\ GoodArrays(plan.arrays)
  BY <1>1, <1>4, OwnPlan DEF PlanOK
<1> USE DEF MemoryInv, StreamInv, Working
<1>5. CASE UNCHANGED <<call, pc, at, dev, leaked, queue, up>>
  BY <1>1, <1>3, <1>5
<1>6. CASE OtherWork
  <2>1. AllUploads(queue') /\ AllHarmless(queue')
    BY <1>6 DEF OtherWork, AllUploads, Uploads, AllHarmless, Harmless
  <2>2. QED
    BY <1>1, <1>6, <2>1 DEF OtherWork
<1>7. CASE \E r \in Routines : \E a \in Args(r) : Start(r, a)
  <2> PICK r \in Routines : \E a \in Args(r) : Start(r, a)
    BY <1>7
  <2>1. PICK a \in Args(r) : Start(r, a)
    OBVIOUS
  <2>2. plan' = Plan(r, a)
    BY <2>1 DEF Start, plan
  <2>3. AllFree(dev) /\ AllHarmless(queue)
    BY <1>1, <2>1 DEF Start
  <2>4. GoodArrays(Plan(r, a).arrays)
    BY GoodPlan DEF PlanOK
  <2>5. AllocatedTo(Plan(r, a).arrays, dev, 1) /\ InScope(Plan(r, a).arrays, dev)
    BY <2>3, <2>4 DEF AllocatedTo, InScope, AllFree, GoodArrays, Scopes
  <2>6. AllLive(queue, Plan(r, a).arrays, dev)
    BY <2>3, HarmlessLive
  <2>7. /\ pc' \in {"alloc", "ended"} /\ at' = 1
        /\ UNCHANGED <<dev, leaked, queue, up>>
    BY <2>1 DEF Start, deviceVars
  <2>8. QED
    BY <1>1, <2>2, <2>3, <2>5, <2>6, <2>7
<1>8. CASE Allocate
  <2> DEFINE s == plan.arrays
             a == s[at]
  <2>1. /\ pc = "alloc" /\ a.size >= 0 /\ at \in DOMAIN s /\ GoodArrays(s)
        /\ dev' = IF a.size = 0 THEN dev ELSE [dev EXCEPT ![a.id] = Junk]
        /\ UNCHANGED <<leaked, queue, up>> /\ plan' = plan
    BY <1>2, <1>3, <1>4, <1>8 DEF Allocate, CallTypes
  <2>2. AllocatedTo(s, dev, at) /\ InScope(s, dev) /\ up
    BY <1>1, <2>1 DEF PhaseInv
  <2>3. AllHarmless(queue)
    BY <1>1, <2>1, <2>2
  <2>4. AllLive(queue, s, dev')
    BY <2>3, HarmlessLive
  <2>5. a.id \in Scopes /\ a.id \in ArrayIds /\ a.id \in IdsOf(s)
    BY <2>1 DEF GoodArrays, Scopes, IdsOf
  <2>6. InScope(s, dev')
    BY <1>2, <2>1, <2>2, <2>5 DEF InScope
  <2>7. DOMAIN s = 1..Len(s) /\ Len(s) \in 1..3 /\ at \in 1..Len(s)
    BY <2>1 DEF GoodArrays
  <2>8. HasMemory(a, dev')
    BY <1>2, <2>1, <2>2, <2>5, <2>7, Kinds DEF HasMemory, AllocatedTo, GoodArrays
  <2>9. \A i \in DOMAIN s : i # at => s[i].id # a.id
    BY <2>1 DEF GoodArrays
  <2>10. \A i \in DOMAIN s : i # at => dev'[s[i].id] = dev[s[i].id]
    BY <2>1, <2>9
  <2>11. AllocatedTo(s, dev', at + 1)
    <3>1. ASSUME NEW i \in DOMAIN s, i < at PROVE HasMemory(s[i], dev')
      BY <2>2, <2>7, <2>10, <3>1 DEF AllocatedTo, HasMemory
    <3>2. ASSUME NEW i \in DOMAIN s, i > at PROVE dev'[s[i].id] = None
      BY <2>2, <2>7, <2>10, <3>2 DEF AllocatedTo
    <3>3. \A i \in DOMAIN s : i < at \/ i = at \/ i > at
      BY <2>7
    <3>4. \A i \in DOMAIN s : (i < at + 1 <=> i < at \/ i = at)
      BY <2>7
    <3>5. QED
      BY <2>8, <3>1, <3>2, <3>3, <3>4, Zenon DEF AllocatedTo
  <2>12. at = Len(s) => Allocated(s, dev')
    BY <2>7, <2>11 DEF AllocatedTo, Allocated
  <2>13. \/ UNCHANGED pc /\ at' = at + 1
         \/ pc' = "fill" /\ at = Len(s)
    BY <1>8, <2>7, LoopStep DEF Allocate
  <2> HIDE DEF s, a
  <2>14. plan'.arrays = s
    BY <2>1 DEF s
  <2>15. QED
    BY <1>1, <2>1, <2>2, <2>3, <2>4, <2>6, <2>11, <2>12, <2>13, <2>14
<1>9. CASE Fill
  <2> DEFINE f == plan.fills[at]
             s == plan.arrays
  <2>1. /\ pc = "fill" /\ at \in DOMAIN plan.fills
        /\ UNCHANGED <<call, dev, leaked, up>> /\ plan' = plan /\ pc' \in {"fill", "launch"}
    BY <1>2, <1>3, <1>9 DEF Fill, CallTypes, Advance
  <2>2. f.op \in {"copy", "memset"} /\ f.to \in IdsOf(s)
    BY <1>4, <2>1 DEF PlanOK, GoodFills
  <2>3. AllUploads(queue') /\ AllLive(queue', s, dev)
    <3>1. CASE dev[f.to] = None
      BY <1>1, <1>9, <2>1, <3>1 DEF Fill
    <3>2. CASE dev[f.to] # None
      <4>1. PICK e : queue' = Append(queue, e) /\ e.op \in {"copy", "memset"} /\ e.to = f.to /\ Uploads(e)
        <5>1. CASE f.op = "memset"
          BY <1>9, <3>2, <5>1 DEF Fill, Enqueue, Uploads
        <5>2. CASE f.op = "copy"
          <6> DEFINE e == [op |-> "copy", to |-> f.to, val |-> In(f.to)]
          <6>1. queue' = Append(queue, e)
            BY <1>9, <3>2, <5>2 DEF Fill, Enqueue
          <6>2. e.op = "copy" /\ e.to = f.to /\ Uploads(e)
            BY DEF Uploads, In
          <6> HIDE DEF e
          <6>3. QED
            BY <6>1, <6>2
        <5>3. QED
          BY <2>2, <5>1, <5>2
      <4>2. Live(e, s, dev)
        BY <2>2, <3>2, <4>1 DEF Live
      <4>3. QED
        BY <1>1, <2>1, <4>1, <4>2, AppendStream
    <3>3. QED
      BY <3>1, <3>2
  <2>4. QED
    BY <1>1, <2>1, <2>3
<1>10. CASE RefuseLate \/ LaunchScalar \/ Download \/ Throw
  <2>1. Working /\ pc' = "unwind" /\ UNCHANGED <<call, dev, leaked, queue, up>>
    BY <1>10 DEF RefuseLate, LaunchScalar, Download, Throw, deviceVars
  <2>2. QED
    BY <1>1, <1>3, <2>1
<1>11. CASE LaunchBlas \/ LaunchSolver
  <2>1. /\ pc \in {"launch", "solve"} /\ pc' \in {"download", "info"}
        /\ UNCHANGED <<call, dev, leaked, up>> /\ plan' = plan
        /\ queue' = queue \/ queue' = Append(queue, Kernel)
    BY <1>3, <1>11 DEF LaunchBlas, LaunchSolver, Enqueue
  <2>2. Allocated(plan.arrays, dev) /\ plan.accepts
    BY <1>1, <2>1 DEF PhaseInv
  <2>3. \A i \in DOMAIN plan.arrays : plan.arrays[i].size >= 0
    BY <2>2 DEF Allocated, HasMemory
  <2>4. \A k \in DOMAIN plan.views : FitsIn(plan.views[k], plan.arrays)
    BY <1>4, <2>1, <2>2, <2>3 DEF PlanOK, ViewsFit
  <2>5. \A k \in DOMAIN plan.views : LiesIn(plan.views[k], plan.arrays, dev)
    BY <2>2, <2>4, ViewsLie
  <2>6. Live(Kernel, plan.arrays, dev) /\ Uploads(Kernel)
    BY <2>5 DEF Live, Uploads, Kernel
  <2>7. AllUploads(queue') /\ AllLive(queue', plan.arrays, dev)
    BY <1>1, <2>1, <2>6, AppendStream
  <2>8. QED
    BY <1>1, <2>1, <2>7
<1>12. CASE AllocateWork \/ ReadInfo
  <2>1. /\ pc \in {"launch", "info"} /\ pc' \in {"solve", "download", "unwind"}
        /\ UNCHANGED <<call, leaked, queue, up>> /\ plan' = plan
        /\ dev' = dev \/ \E v : dev' = [dev EXCEPT !["work"] = v]
    BY <1>3, <1>12 DEF AllocateWork, ReadInfo
  <2>2. \A x \in Scopes : dev'[x] = dev[x]
    BY <2>1, <1>2 DEF Scopes
  <2>3. SameMemory(dev, dev')
    BY <2>2 DEF SameMemory
  <2>4. AllLive(queue, plan.arrays, dev') /\ Allocated(plan.arrays, dev')
    BY <1>1, <1>4, <2>1, <2>3, MemoryFrame
  <2>5. InScope(plan.arrays, dev')
    BY <1>1, <2>1, <2>2 DEF InScope, Scopes
  <2>6. QED
    BY <1>1, <2>1, <2>4, <2>5
<1>13. CASE Unwind
  <2>1. /\ pc = "unwind" /\ pc' = "ended" /\ plan' = plan /\ UNCHANGED <<call, queue>>
        /\ Held \intersect Scoped # {} => queue = <<>>
    BY <1>3, <1>13 DEF Unwind, Idle
  <2>2. Scoped = IdsOf(plan.arrays) /\ IdsOf(plan.arrays) \subseteq ArrayIds
    BY <1>4, <2>1 DEF Scoped, IdsOf, GoodArrays, Scopes
  <2>3. AllHarmless(queue)
    <3>1. CASE Held \intersect Scoped # {}
      BY <2>1, <3>1, EmptyStream
    <3>2. CASE Held \intersect Scoped = {}
      <4>1. \A x \in IdsOf(plan.arrays) : dev[x] = None
        BY <2>2, <3>2 DEF Held
      <4>2. QED
        BY <1>1, <2>1, <4>1, LiveFree
    <3>3. QED
      BY <3>1, <3>2
  <2>4. Held \ Scoped \subseteq {"work"}
    BY <1>1, <2>1, <2>2 DEF Held, InScope
  <2>5. leaked' \subseteq {"work"} /\ (up' => AllFree(dev'))
    BY <1>1, <1>13, <2>4 DEF Unwind, AllFree
  <2>6. AllLive(queue, plan.arrays, dev')
    BY <2>3, HarmlessLive
  <2>7. QED
    BY <1>1, <2>1, <2>3, <2>5, <2>6
<1>14. CASE Return
  BY <1>1, <1>14 DEF Return
<1>15. CASE StreamStep
  <2>1. /\ queue # <<>> /\ queue' = Tail(queue) /\ plan' = plan
        /\ UNCHANGED <<call, pc, at, leaked, up>>
    BY <1>3, <1>15 DEF StreamStep, Idle
  <2>2. \A x \in ArrayIds : dev'[x] = None <=> dev[x] = None
    BY <1>1, <1>15, StreamMemory
  <2>3. SameMemory(dev, dev')
    BY <2>2 DEF SameMemory, Scopes
  <2>4. AllUploads(queue') /\ (AllHarmless(queue) => AllHarmless(queue'))
    BY <1>1, <2>1, TailStream
  <2>5. pc # "idle" => AllLive(queue', plan.arrays, dev')
    <3> HAVE pc # "idle"
    <3>1. AllLive(queue', plan.arrays, dev)
      BY <1>1, <2>1, TailStream
    <3>2. QED
      BY <1>4, <2>3, <3>1, MemoryFrame
  <2>6. pc # "idle" => (Allocated(plan.arrays, dev) => Allocated(plan.arrays, dev'))
    BY <1>4, <2>3, MemoryFrame
  <2>7. (AllFree(dev) => AllFree(dev')) /\ (InScope(plan.arrays, dev) => InScope(plan.arrays, dev'))
    BY <2>2 DEF AllFree, InScope
  <2>8. pc = "alloc" => AllocatedTo(plan.arrays, dev', at)
    <3> HAVE pc = "alloc"
    <3>1. \A i \in DOMAIN plan.arrays : plan.arrays[i].id \in ArrayIds
      BY <1>4 DEF GoodArrays, Scopes
    <3>2. QED
      BY <1>1, <2>2, <3>1 DEF AllocatedTo, HasMemory
  <2>9. QED
    BY <1>1, <2>1, <2>4, <2>5, <2>6, <2>7, <2>8
<1>16. CASE DeviceFault
  <2>1. queue' = <<>> /\ plan' = plan /\ UNCHANGED <<call, pc, at, dev, leaked, up>>
    BY <1>3, <1>16 DEF DeviceFault
  <2>2. QED
    BY <1>1, <2>1, EmptyStream
<1> HIDE DEF MemoryInv, StreamInv, Working
<1>17. QED
  BY Zenon, <1>5, <1>6, <1>7, <1>8, <1>9, <1>10, <1>11, <1>12, <1>13, <1>14, <1>15, <1>16
  DEF Next, HostStep, vars, deviceVars, SetRunMode

\* The arrays, the stream and the work space, in every reachable state.
THEOREM DeviceInvariance == Spec => []DeviceInv
<1>1. DeviceInv /\ [Next]_vars => DeviceInv'
  BY DeviceInvStep
<1>2. QED
  BY <1>1, DeviceInvInit, PTL DEF Spec

\* Whether a call returns, refuses its arguments or ends with a C++ exception, its arrays are
\* freed; only the work space of a factorization that threw can be lost.
THEOREM LeaksOnlyWorkSpace == Spec => []OnlyWorkSpaceLeaks
<1>1. DeviceInv => OnlyWorkSpaceLeaks
  BY DEF DeviceInv, MemoryInv, AllFree, OnlyWorkSpaceLeaks, Held
<1>2. QED
  BY <1>1, DeviceInvariance, PTL

\* Nothing on the stream goes outside the memory of the call, and nothing is freed under
\* it: for all dimensions, lengths that an int cannot hold and after errors.
THEOREM AccessesInBounds == Spec => []AccessInBounds
<1>1. DeviceInv => AccessInBounds
  <2> SUFFICES ASSUME DeviceInv, up, NEW i \in DOMAIN queue
               PROVE  /\ queue[i].op = "kernel" => \A k \in DOMAIN queue[i].views : InBounds(queue[i].views[k])
                      /\ queue[i].op \in {"copy", "memset"} => dev[queue[i].to] # None
    BY DEF AccessInBounds
  <2>1. CASE pc = "idle"
    <3>1. Harmless(queue[i])
      BY <2>1 DEF DeviceInv, StreamInv, AllHarmless
    <3>2. QED
      BY <3>1 DEF Harmless, InBounds
  <2>2. CASE pc # "idle"
    <3>1. Live(queue[i], plan.arrays, dev)
      BY <2>2 DEF DeviceInv, StreamInv, AllLive
    <3>2. QED
      BY <3>1 DEF Live, LiesIn, InBounds
  <2>3. QED
    BY <2>1, <2>2
<1>2. QED
  BY <1>1, DeviceInvariance, PTL

-----------------------------------------------------------------------------
(***************************************************************************)
(* The values.                                                             *)
(***************************************************************************)
\* The operation writes to array x; it gives x the value v.
Touches(op, x) ==
  \/ op.op \in {"copy", "memset"} /\ op.to = x
  \/ op.op = "kernel" /\ x \in Range(op.writes)
Sets(op, x, v) ==
  \/ op.op = "copy" /\ op.to = x /\ op.val = v
  \/ op.op = "memset" /\ op.to = x /\ v = Zero

\* After the first n operations of q, x holds v.
Bound(q, n, d, x, v) ==
  \/ d[x] = v /\ \A i \in 1..n : ~Touches(q[i], x)
  \/ \E i \in 1..n : Sets(q[i], x, v) /\ \A k \in 1..n : k > i => ~Touches(q[k], x)

\* What an upload or a memset of call c puts into its array, and that it does.
Argument(x, c) == [is |-> "argument", of |-> x, in |-> c]
Value(f, c) == IF f.op = "copy" THEN Argument(f.to, c) ELSE Zero
Filled(f, q, n, d, c) == d[f.to] # None => Bound(q, n, d, f.to, Value(f, c))

\* Given, a value of the call's own, and its kernel, for a plan p and a call c.
GivenIn(x, p, c) ==
  IF \A i \in DOMAIN p.arrays : p.arrays[i].id = x => p.arrays[i].size = 0 THEN None
  ELSE IF c.routine = "dsyrk" /\ x = "C" /\ c.args.beta = 0 THEN Zero
  ELSE Argument(x, c)
Own(v, p, c) ==
  \/ v = None
  \/ /\ v.is = "computed" /\ v.by = c.routine
     /\ \A k \in DOMAIN p.reads : v.from[k] = GivenIn(p.reads[k], p, c)
KernelOf(p, c) ==
  [op |-> "kernel", by |-> c.routine, reads |-> p.reads, writes |-> p.writes, views |-> p.views,
   good |-> c.routine \in Factors => c.args.good]

\* The kernel of the call is the last operation of the stream, and finds the arguments;
\* or it has run, and left its results and its status.
Pending(q, d, p, c) ==
  /\ q # <<>> /\ q[Len(q)] = KernelOf(p, c)
  /\ \A j \in DOMAIN p.fills : Filled(p.fills[j], q, Len(q) - 1, d, c)
Done(q, d, i, p, c) ==
  /\ q = <<>>
  /\ \A x \in Range(p.writes) : Own(d[x], p, c)
  /\ c.routine \in Factors => i = IF c.args.good THEN 0 ELSE 1

Good(c) == c.routine = "dpotrf" => c.args.good

ValueInv ==
  /\ pc = "fill" /\ ~fault =>
       \A j \in DOMAIN plan.fills : j < at => Filled(plan.fills[j], queue, Len(queue), dev, call)
  /\ pc \in {"launch", "solve"} /\ ~fault =>
       \A j \in DOMAIN plan.fills : Filled(plan.fills[j], queue, Len(queue), dev, call)
  /\ pc = "info" => fault \/ Pending(queue, dev, plan, call) \/ Done(queue, dev, info, plan, call)
  /\ pc = "download" =>
       \/ fault \/ Pending(queue, dev, plan, call) \/ Done(queue, dev, info, plan, call)
       \/ \A x \in Range(plan.writes) : dev[x] = None
  /\ pc = "download" \/ outcome = "returned" => Good(call)
  /\ outcome = "returned" => \A i \in DOMAIN result : Own(result[i], plan, call)

ResultInv == DeviceInv /\ ValueInv

\* Appending an operation that does not touch x, one that sets it, or any one.
LEMMA BoundAppend ==
  ASSUME NEW q, IsQueue(q), NEW e, NEW d, NEW x, NEW v
  PROVE  /\ Bound(q, Len(q), d, x, v) /\ ~Touches(e, x)
              => Bound(Append(q, e), Len(Append(q, e)), d, x, v)
         /\ Sets(e, x, v) => Bound(Append(q, e), Len(Append(q, e)), d, x, v)
         /\ Bound(q, Len(q), d, x, v) => Bound(Append(q, e), Len(q), d, x, v)
<1> DEFINE a == Append(q, e)
<1>1. PICK n \in Nat : n = Len(q)
  BY Appended
<1>2. Len(a) = n + 1 /\ a[n + 1] = e /\ \A i \in 1..n : a[i] = q[i]
  BY <1>1, Appended
<1>3. \A i \in 1..n + 1 : i \in 1..n \/ i = n + 1
  OBVIOUS
<1> HIDE DEF a
<1>4. ASSUME Bound(q, n, d, x, v), ~Touches(e, x) PROVE Bound(a, n + 1, d, x, v)
  <2>1. CASE d[x] = v /\ \A i \in 1..n : ~Touches(q[i], x)
    BY <1>2, <1>3, <1>4, <2>1 DEF Bound
  <2>2. CASE \E i \in 1..n : Sets(q[i], x, v) /\ \A k \in 1..n : k > i => ~Touches(q[k], x)
    <3>1. PICK i \in 1..n : Sets(q[i], x, v) /\ \A k \in 1..n : k > i => ~Touches(q[k], x)
      BY <2>2
    <3>2. i \in 1..n + 1 /\ Sets(a[i], x, v)
      BY <1>2, <3>1
    <3>3. \A k \in 1..n + 1 : k > i => ~Touches(a[k], x)
      BY <1>2, <1>3, <1>4, <3>1
    <3>4. QED
      BY <3>2, <3>3 DEF Bound
  <2>3. QED
    BY <1>4, <2>1, <2>2 DEF Bound
<1>5. ASSUME Sets(e, x, v) PROVE Bound(a, n + 1, d, x, v)
  <2>1. n + 1 \in 1..n + 1 /\ \A k \in 1..n + 1 : ~(k > n + 1)
    OBVIOUS
  <2>2. QED
    BY <1>2, <1>5, <2>1 DEF Bound
<1>6. ASSUME Bound(q, n, d, x, v) PROVE Bound(a, n, d, x, v)
  BY <1>2, <1>6 DEF Bound
<1>7. QED
  BY <1>1, <1>2, <1>4, <1>5, <1>6 DEF a

\* The device works off the first operation.
LEMMA BoundTail ==
  ASSUME NEW q, IsQueue(q), q # <<>>, NEW n \in 1..Len(q), NEW d, NEW e, NEW x, NEW v,
         ~Touches(q[1], x) => e[x] = d[x],
         Sets(q[1], x, v) => e[x] = v,
         Bound(q, n, d, x, v)
  PROVE  Bound(Tail(q), n - 1, e, x, v)
<1> DEFINE t == Tail(q)
<1>1. Len(q) \in Nat \ {0} /\ \A i \in 1..Len(q) - 1 : t[i] = q[i + 1]
  BY Tailed
<1>2. n \in Nat \ {0} /\ \A i \in 1..n - 1 : i + 1 \in 1..n /\ t[i] = q[i + 1]
  BY <1>1
<1> HIDE DEF t
<1>3. CASE d[x] = v /\ \A i \in 1..n : ~Touches(q[i], x)
  <2>1. e[x] = v
    BY <1>2, <1>3
  <2>2. \A i \in 1..n - 1 : ~Touches(t[i], x)
    BY <1>2, <1>3
  <2>3. QED
    BY <2>1, <2>2 DEF Bound, t
<1>4. CASE \E i \in 1..n : Sets(q[i], x, v) /\ \A k \in 1..n : k > i => ~Touches(q[k], x)
  <2>1. PICK i \in 1..n : Sets(q[i], x, v) /\ \A k \in 1..n : k > i => ~Touches(q[k], x)
    BY <1>4
  <2>2. CASE i = 1
    <3>1. e[x] = v
      BY <2>1, <2>2
    <3>2. \A k \in 1..n - 1 : k + 1 > i
      BY <2>2
    <3>3. \A k \in 1..n - 1 : ~Touches(t[k], x)
      BY <1>2, <2>1, <3>2
    <3>4. QED
      BY <3>1, <3>3 DEF Bound, t
  <2>3. CASE i # 1
    <3>1. i - 1 \in 1..n - 1 /\ i - 1 + 1 = i
      BY <1>2, <2>3
    <3>2. Sets(t[i - 1], x, v)
      BY <1>2, <2>1, <3>1
    <3>3. \A k \in 1..n - 1 : k > i - 1 => ~Touches(t[k], x)
      <4> TAKE k \in 1..n - 1
      <4>1. k > i - 1 => k + 1 > i
        BY <3>1
      <4>2. QED
        BY <1>2, <2>1, <4>1
    <3>4. QED
      BY <3>1, <3>2, <3>3 DEF Bound, t
  <2>4. QED
    BY <2>2, <2>3
<1>5. QED
  BY <1>3, <1>4 DEF Bound

\* What the first operation of the stream does to an array.
LEMMA StreamEffect ==
  ASSUME CallsInv, StreamStep, NEW x \in ArrayIds
  PROVE  /\ ~Touches(queue[1], x) => dev'[x] = dev[x]
         /\ \A v : Sets(queue[1], x, v) /\ dev[x] # None => dev'[x] = v
<1> DEFINE op == Head(queue)
<1>1. DOMAIN dev = ArrayIds /\ OpsTyped(queue) /\ IsQueue(queue) /\ queue # <<>>
  BY TypeParts DEF CallsInv, DeviceTypes, StreamStep, Idle
<1>2. op = queue[1] /\ op.op \in {"copy", "memset", "kernel", "other"}
  BY <1>1, Tailed DEF OpsTyped
<1>3. CASE op.op = "copy"
  <2>1. dev' = Put(op.to, op.val)
    BY <1>3 DEF StreamStep
  <2>2. QED
    BY <1>1, <1>2, <1>3, <2>1 DEF Put, Touches, Sets
<1>4. CASE op.op = "memset"
  <2>1. dev' = Put(op.to, Zero)
    BY <1>4 DEF StreamStep
  <2>2. QED
    BY <1>1, <1>2, <1>4, <2>1 DEF Put, Touches, Sets
<1>5. CASE op.op = "kernel"
  <2>1. dev' = [y \in ArrayIds |-> IF y \in Range(op.writes) /\ dev[y] # None
                                  THEN Computed(op.by, op.reads, y) ELSE dev[y]]
    BY <1>5 DEF StreamStep
  <2>2. QED
    BY <1>2, <1>5, <2>1 DEF Touches, Sets
<1>6. CASE op.op = "other"
  BY <1>2, <1>6 DEF StreamStep, Touches, Sets
<1>7. QED
  BY <1>2, <1>3, <1>4, <1>5, <1>6

\* So the fills stay in force.
LEMMA FilledTail ==
  ASSUME DeviceInv, StreamStep, NEW f, f.to \in ArrayIds, NEW n \in 1..Len(queue), NEW c,
         Filled(f, queue, n, dev, c)
  PROVE  Filled(f, Tail(queue), n - 1, dev', c)
<1>1. CallsInv /\ IsQueue(queue) /\ queue # <<>> /\ AllUploads(queue)
  BY DEF DeviceInv, CallsInv, StreamInv, StreamStep, Idle
<1>2. dev'[f.to] = None <=> dev[f.to] = None
  BY <1>1, StreamMemory
<1> SUFFICES ASSUME dev[f.to] # None PROVE Bound(Tail(queue), n - 1, dev', f.to, Value(f, c))
  BY <1>2 DEF Filled
<1>3. /\ ~Touches(queue[1], f.to) => dev'[f.to] = dev[f.to]
      /\ Sets(queue[1], f.to, Value(f, c)) => dev'[f.to] = Value(f, c)
  BY <1>1, StreamEffect
<1>4. Bound(queue, n, dev, f.to, Value(f, c))
  BY DEF Filled
<1>5. QED
  BY <1>1, <1>3, <1>4, BoundTail

\* When the uploads have been worked off, the arrays hold the arguments of the call.
LEMMA ReadsGiven ==
  ASSUME NEW p, NEW c, PlanOK(c.routine, c.args, p), ~p.refuses, NEW d, Allocated(p.arrays, d),
         NEW q, \A j \in DOMAIN p.fills : Filled(p.fills[j], q, 0, d, c)
  PROVE  \A k \in DOMAIN p.reads : d[p.reads[k]] = GivenIn(p.reads[k], p, c)
<1> TAKE k \in DOMAIN p.reads
<1> DEFINE x == p.reads[k]
<1>1. GoodArrays(p.arrays) /\ GoodFills(p.fills, IdsOf(p.arrays)) /\ ReadsFilled(c.routine, c.args, p)
  BY DEF PlanOK
<1>2. PICK j \in DOMAIN p.fills :
        /\ p.fills[j].to = x
        /\ p.fills[j].op = "memset" <=> c.routine = "dsyrk" /\ x = "C" /\ c.args.beta = 0
  BY <1>1 DEF ReadsFilled
<1> DEFINE f == p.fills[j]
<1>3. f.to = x /\ f.op \in {"copy", "memset"} /\ x \in IdsOf(p.arrays)
  BY <1>1, <1>2 DEF GoodFills
<1>4. PICK i \in DOMAIN p.arrays : p.arrays[i].id = x
  BY <1>3 DEF IdsOf
<1>5. \A l \in DOMAIN p.arrays : p.arrays[l].id = x => l = i
  BY <1>1, <1>4 DEF GoodArrays
<1>6. d[x] = None <=> p.arrays[i].size = 0
  BY <1>4 DEF Allocated, HasMemory
<1>7. CASE d[x] = None
  BY <1>5, <1>6, <1>7 DEF GivenIn
<1>8. CASE d[x] # None
  <2>1. Bound(q, 0, d, x, Value(f, c))
    BY <1>3, <1>8 DEF Filled
  <2>2. d[x] = Value(f, c)
    BY <2>1 DEF Bound
  <2>3. GivenIn(x, p, c) = IF c.routine = "dsyrk" /\ x = "C" /\ c.args.beta = 0 THEN Zero ELSE Argument(x, c)
    BY <1>4, <1>6, <1>8 DEF GivenIn
  <2>4. QED
    BY <1>2, <1>3, <2>2, <2>3 DEF Value
<1>9. QED
  BY <1>7, <1>8

\* What the call's routine computes from them is its own.
LEMMA ComputedOwn ==
  ASSUME NEW p, NEW c, NEW x, \A k \in DOMAIN p.reads : dev[p.reads[k]] = GivenIn(p.reads[k], p, c)
  PROVE  Own(Computed(c.routine, p.reads, x), p, c)
  BY DEF Own, Computed

\* The arrays a plan names.
LEMMA PlanNames ==
  ASSUME NEW r, NEW a, NEW p, PlanOK(r, a, p)
  PROVE  /\ IdsOf(p.arrays) \subseteq Scopes /\ Scopes \subseteq ArrayIds /\ "work" \notin Scopes
         /\ \A j \in DOMAIN p.fills : p.fills[j].to \in Scopes /\ p.fills[j].op \in {"copy", "memset"}
         /\ \A i, k \in DOMAIN p.fills : p.fills[i].to = p.fills[k].to => i = k
         /\ Range(p.writes) \subseteq Scopes
<1>1. GoodArrays(p.arrays) /\ GoodFills(p.fills, IdsOf(p.arrays)) /\ WritesOwn(p)
  BY DEF PlanOK
<1>2. IdsOf(p.arrays) \subseteq Scopes /\ Scopes \subseteq ArrayIds /\ "work" \notin Scopes
  BY <1>1 DEF GoodArrays, IdsOf, Scopes
<1>3. /\ \A j \in DOMAIN p.fills : p.fills[j].to \in Scopes /\ p.fills[j].op \in {"copy", "memset"}
      /\ \A i, k \in DOMAIN p.fills : p.fills[i].to = p.fills[k].to => i = k
  BY <1>1, <1>2 DEF GoodFills
<1>4. Range(p.writes) \subseteq Scopes
  BY <1>1, <1>2 DEF WritesOwn, Range
<1>5. QED
  BY <1>2, <1>3, <1>4

\* The values of arrays that keep their contents.
LEMMA FilledFrame ==
  ASSUME NEW f, NEW q, NEW n, NEW d, NEW e, NEW c, e[f.to] = d[f.to], Filled(f, q, n, d, c)
  PROVE  Filled(f, q, n, e, c)
  BY DEF Filled, Bound

\* The device works on the stream while the kernel of the call is on it.
LEMMA KernelRuns ==
  ASSUME DeviceInv, StreamStep, pc \in {"info", "download"}, ~plan.refuses,
         Pending(queue, dev, plan, call)
  PROVE  Pending(queue', dev', plan, call) \/ Done(queue', dev', info', plan, call)
<1>1. /\ CallsInv /\ IsQueue(queue) /\ queue # <<>> /\ queue' = Tail(queue)
      /\ PlanOK(call.routine, call.args, plan) /\ Allocated(plan.arrays, dev)
  BY OwnPlan DEF DeviceInv, CallsInv, MemoryInv, Working, StreamStep, Idle
<1>2. PICK n \in Nat \ {0} : n = Len(queue)
  BY <1>1, Tailed
<1>3. CASE n = 1
  <2>1. queue' = <<>> /\ Head(queue) = KernelOf(plan, call)
    BY <1>1, <1>2, <1>3, Tailed DEF Pending
  <2>2. \A j \in DOMAIN plan.fills : Filled(plan.fills[j], queue, 0, dev, call)
    BY <1>2, <1>3 DEF Pending
  <2>3. \A k \in DOMAIN plan.reads : dev[plan.reads[k]] = GivenIn(plan.reads[k], plan, call)
    BY <1>1, <2>2, ReadsGiven
  <2>4. \A x : Own(Computed(call.routine, plan.reads, x), plan, call)
    BY <2>3, ComputedOwn
  <2>5. /\ KernelOf(plan, call).op = "kernel" /\ KernelOf(plan, call).by = call.routine
        /\ KernelOf(plan, call).reads = plan.reads /\ KernelOf(plan, call).writes = plan.writes
        /\ KernelOf(plan, call).good = (call.routine \in Factors => call.args.good)
    BY DEF KernelOf
  <2>6. dev' = [x \in ArrayIds |-> IF x \in Range(plan.writes) /\ dev[x] # None
                                  THEN Computed(call.routine, plan.reads, x) ELSE dev[x]]
    BY <2>1, <2>5 DEF StreamStep
  <2>7. \A x \in Range(plan.writes) : Own(dev'[x], plan, call)
    <3> TAKE x \in Range(plan.writes)
    <3>1. x \in ArrayIds
      BY <1>1, PlanNames
    <3>2. CASE dev[x] = None
      BY <2>6, <3>1, <3>2 DEF Own
    <3>3. CASE dev[x] # None
      BY <2>4, <2>6, <3>1, <3>3
    <3>4. QED
      BY <3>2, <3>3
  <2>8. call.routine \in Factors => info' = IF call.args.good THEN 0 ELSE 1
    BY <2>1, <2>5 DEF StreamStep, Solvers
  <2>9. QED
    BY <2>1, <2>7, <2>8 DEF Done
<1>4. CASE n # 1
  <2>1. n - 1 \in 1..n /\ n - 1 \in Nat \ {0}
    BY <1>4
  <2>2. Len(queue') = n - 1 /\ queue'[n - 1] = queue[n]
    BY <1>1, <1>2, <2>1, Tailed
  <2>3. queue' # <<>>
    BY <2>1, <2>2
  <2>4. ASSUME NEW j \in DOMAIN plan.fills
        PROVE  Filled(plan.fills[j], queue', n - 1 - 1, dev', call)
    <3>1. plan.fills[j].to \in ArrayIds
      BY <1>1, PlanNames
    <3>2. Filled(plan.fills[j], queue, n - 1, dev, call)
      BY <1>2 DEF Pending
    <3>3. QED
      BY <1>1, <1>2, <2>1, <3>1, <3>2, FilledTail
  <2>5. QED
    BY <1>2, <2>2, <2>3, <2>4 DEF Pending
<1>5. QED
  BY <1>3, <1>4

\* The invariant holds initially.
LEMMA ResultInvInit == Init => ResultInv
<1>1. Init => ValueInv
  BY DEF Init, ValueInv
<1>2. QED
  BY <1>1, DeviceInvInit DEF ResultInv

\* Every step keeps the invariant.
LEMMA ResultInvStep == ResultInv /\ [Next]_vars => ResultInv'
<1> SUFFICES ASSUME ResultInv, [Next]_vars PROVE ValueInv'
  BY DeviceInvStep DEF ResultInv
<1>1. /\ DeviceInv /\ CallsInv /\ MemoryInv /\ ValueInv /\ IsQueue(queue) /\ CallInv /\ PhaseInv
      /\ CallTypes
  BY TypeParts DEF ResultInv, DeviceInv, CallsInv
<1>2. ASSUME UNCHANGED call PROVE plan' = plan
  BY <1>2 DEF plan
<1>3. ASSUME pc # "idle" PROVE PlanOK(call.routine, call.args, plan)
  BY <1>1, <1>3, OwnPlan
<1>4. ASSUME Working, pc # "alloc" PROVE Allocated(plan.arrays, dev)
  BY <1>1, <1>4 DEF MemoryInv
<1>5. Working => outcome = "none"
  BY <1>1 DEF PhaseInv
<1>6. CASE UNCHANGED <<call, pc, at, dev, queue, info, fault, outcome, result>>
  BY <1>1, <1>2, <1>6 DEF ValueInv
<1>7. CASE OtherWork \/ Return \/ \E r \in Routines : \E a \in Args(r) : Start(r, a)
  <2>1. pc' \in {"idle", "alloc", "ended"} /\ outcome' # "returned"
    BY <1>1, <1>7 DEF OtherWork, Return, Start, PhaseInv
  <2>2. QED
    BY <2>1 DEF ValueInv
<1>8. CASE Allocate
  <2>1. pc = "alloc" /\ outcome' = outcome /\ UNCHANGED call /\ pc' \in {"alloc", "fill"}
    BY <1>8 DEF Allocate, Advance
  <2>2. pc' = "fill" => at' = 1
    BY <1>8, <2>1 DEF Allocate, Advance
  <2>3. \A j \in DOMAIN plan.fills : ~(j < 1)
    BY <1>3, <2>1, PlanLists
  <2>4. outcome' = "none"
    BY <1>5, <2>1 DEF Working
  <2>5. QED
    BY <1>2, <2>1, <2>2, <2>3, <2>4 DEF ValueInv
<1>9. CASE Fill
  <2> DEFINE f == plan.fills[at]
             F(j, q) == Filled(plan.fills[j], q, Len(q), dev, call)
  <2>1. /\ pc = "fill" /\ at \in DOMAIN plan.fills /\ outcome' = "none"
        /\ UNCHANGED <<call, dev, fault>> /\ plan' = plan /\ Advance(Len(plan.fills), "launch")
    BY <1>1, <1>2, <1>5, <1>9 DEF Fill, CallTypes, Working
  <2>2. /\ DOMAIN plan.fills = 1..Len(plan.fills) /\ Len(plan.fills) \in 1..3 /\ at \in 1..Len(plan.fills)
        /\ f.op \in {"copy", "memset"}
        /\ \A j \in DOMAIN plan.fills : plan.fills[j].to = f.to => j = at
    BY <1>3, <2>1, PlanLists, PlanNames
  <2>3. ASSUME ~fault, NEW j \in DOMAIN plan.fills, j < at + 1 PROVE F(j, queue')
    <3>1. j < at => F(j, queue)
      BY <1>1, <2>1, <2>3 DEF ValueInv
    <3>2. j < at \/ j = at
      BY <2>2, <2>3
    <3>3. CASE dev[f.to] = None
      <4>1. queue' = queue
        BY <1>9, <3>3 DEF Fill
      <4>2. QED
        BY <3>1, <3>2, <3>3, <4>1 DEF Filled
    <3>4. CASE dev[f.to] # None
      <4>1. PICK e : /\ queue' = Append(queue, e)
                     /\ Sets(e, f.to, Value(f, call))
                     /\ \A x : x # f.to => ~Touches(e, x)
        <5>1. CASE f.op = "memset"
          <6>1. queue' = Append(queue, f)
            BY <1>9, <3>4, <5>1 DEF Fill, Enqueue
          <6>2. Sets(f, f.to, Value(f, call)) /\ \A x : x # f.to => ~Touches(f, x)
            BY <5>1 DEF Sets, Touches, Value
          <6>3. QED
            BY <6>1, <6>2
        <5>2. CASE f.op = "copy"
          <6> DEFINE e == [op |-> "copy", to |-> f.to, val |-> In(f.to)]
          <6>1. queue' = Append(queue, e)
            BY <1>9, <3>4, <5>2 DEF Fill, Enqueue
          <6>2. e.op = "copy" /\ e.to = f.to /\ e.val = Value(f, call)
            BY <5>2 DEF In, Value, Argument
          <6> HIDE DEF e
          <6>3. Sets(e, f.to, Value(f, call)) /\ \A x : x # f.to => ~Touches(e, x)
            BY <6>2 DEF Sets, Touches
          <6>4. QED
            BY <6>1, <6>3
        <5>3. QED
          BY <2>2, <5>1, <5>2
      <4>2. CASE j = at
        BY <1>1, <4>1, <4>2, BoundAppend DEF Filled
      <4>3. CASE j < at
        <5>1. plan.fills[j].to # f.to
          BY <2>2, <4>3
        <5>2. ~Touches(e, plan.fills[j].to)
          BY <4>1, <5>1
        <5>3. QED
          BY <1>1, <3>1, <4>1, <4>3, <5>2, BoundAppend DEF Filled
      <4>4. QED
        BY <3>2, <4>2, <4>3
    <3>5. QED
      BY <3>3, <3>4
  <2>4. \/ pc' = "fill" /\ at' = at + 1
        \/ pc' = "launch" /\ at = Len(plan.fills)
    BY <2>1, <2>2, LoopStep
  <2>5. at = Len(plan.fills) => \A j \in DOMAIN plan.fills : j < at + 1
    BY <2>2
  <2>6. QED
    BY <2>1, <2>3, <2>4, <2>5 DEF ValueInv
<1>10. CASE RefuseLate \/ Throw
  <2>1. pc' = "unwind" /\ outcome' # "returned"
    BY <1>10 DEF RefuseLate, Throw
  <2>2. QED
    BY <2>1 DEF ValueInv
<1>11. CASE LaunchBlas \/ LaunchSolver
  <2>1. /\ pc \in {"launch", "solve"} /\ outcome' = "none"
        /\ UNCHANGED <<call, dev>> /\ plan' = plan
        /\ \/ queue' = Append(queue, Kernel) /\ pc' \in {"info", "download"}
           \/ LaunchBlas /\ ~HasWork /\ pc' = "download"
        /\ pc' = "download" => call.routine \notin Solvers
        /\ ~fault
    BY <1>2, <1>5, <1>11 DEF LaunchBlas, LaunchSolver, Enqueue, Working
  <2>2. Good(call) \/ pc' # "download"
    BY <2>1 DEF Good, Solvers, Factors
  <2>3. CASE queue' = Append(queue, Kernel) /\ pc' \in {"info", "download"}
    <3>1. Kernel = KernelOf(plan, call)
      BY DEF Kernel, KernelOf
    <3>2. Len(queue) \in Nat /\ Len(queue') = Len(queue) + 1 /\ queue'[Len(queue')] = Kernel /\ queue' # <<>>
      BY <1>1, <2>3, Appended
    <3>3. ASSUME NEW j \in DOMAIN plan.fills
          PROVE  Filled(plan.fills[j], queue', Len(queue), dev, call)
      <4>1. Filled(plan.fills[j], queue, Len(queue), dev, call)
        BY <1>1, <2>1 DEF ValueInv
      <4>2. QED
        BY <1>1, <2>3, <4>1, BoundAppend DEF Filled
    <3>4. Pending(queue', dev', plan', call')
      BY <2>1, <3>1, <3>2, <3>3 DEF Pending
    <3>5. QED
      BY <2>1, <2>2, <2>3, <3>4 DEF ValueInv
  <2>4. CASE ~HasWork /\ pc' = "download"
    <3>1. \A x \in Range(plan'.writes) : dev'[x] = None
      BY <2>1, <2>4 DEF HasWork, Range
    <3>2. QED
      BY <2>1, <2>2, <2>4, <3>1 DEF ValueInv
  <2>5. QED
    BY <2>1, <2>3, <2>4
<1>12. CASE LaunchScalar
  <2>1. /\ pc = "launch" /\ pc' = "unwind" /\ plan' = plan /\ UNCHANGED call /\ queue = <<>> /\ ~fault
        /\ result' = <<Computed(call.routine, plan.reads, "host")>> /\ plan.writes = <<>>
    BY <1>2, <1>12 DEF LaunchScalar, Idle
  <2>2. call.routine \in {"ddot", "dnrm2"} /\ ~plan.refuses
    BY <1>1, <2>1, LateRefusal DEF CallInv, plan
  <2>3. \A j \in DOMAIN plan.fills : Filled(plan.fills[j], queue, 0, dev, call)
    BY <1>1, <2>1 DEF ValueInv
  <2>4. \A k \in DOMAIN plan.reads : dev[plan.reads[k]] = GivenIn(plan.reads[k], plan, call)
    BY <1>3, <1>4, <2>1, <2>2, <2>3, ReadsGiven DEF Working
  <2>5. Own(Computed(call.routine, plan.reads, "host"), plan, call)
    BY <2>4, ComputedOwn
  <2>6. \A i \in DOMAIN result' : Own(result'[i], plan, call)
    BY <2>1, <2>5
  <2>7. QED
    BY <2>1, <2>2, <2>6 DEF ValueInv, Good
<1>13. CASE AllocateWork
  <2>1. /\ pc = "launch" /\ pc' = "solve" /\ plan' = plan /\ outcome' = "none"
        /\ UNCHANGED <<call, queue>> /\ ~fault
        /\ dev' \in {dev, [dev EXCEPT !["work"] = Junk]}
    BY <1>2, <1>5, <1>13 DEF AllocateWork, Working
  <2>2. ASSUME NEW j \in DOMAIN plan.fills
        PROVE  Filled(plan.fills[j], queue, Len(queue), dev', call)
    <3>1. plan.fills[j].to # "work" /\ plan.fills[j].to \in DOMAIN dev
      BY <1>1, <1>3, <2>1, PlanNames, TypeParts DEF CallsInv, DeviceTypes
    <3>2. dev'[plan.fills[j].to] = dev[plan.fills[j].to]
      BY <2>1, <3>1
    <3>3. Filled(plan.fills[j], queue, Len(queue), dev, call)
      BY <1>1, <2>1 DEF ValueInv
    <3>4. QED
      BY <3>2, <3>3, FilledFrame
  <2>3. QED
    BY <2>1, <2>2 DEF ValueInv
<1>14. CASE ReadInfo
  <2>1. /\ pc = "info" /\ ~fault /\ queue = <<>> /\ outcome = "none"
        /\ plan' = plan /\ UNCHANGED <<call, queue, info>> /\ dev' = [dev EXCEPT !["work"] = None]
        /\ \/ pc' = "unwind" /\ outcome' = "not definite"
           \/ pc' = "download" /\ outcome' = outcome /\ (info = 0 \/ call.routine = "dgetrf")
    BY <1>2, <1>5, <1>14 DEF ReadInfo, Idle, Working
  <2>2. Done(queue, dev, info, plan, call)
    BY <1>1, <2>1 DEF ValueInv, Pending
  <2>3. \A x \in Range(plan.writes) : dev'[x] = dev[x]
    <3>1. \A x \in Range(plan.writes) : x # "work" /\ x \in DOMAIN dev
      BY <1>1, <1>3, <2>1, PlanNames, TypeParts DEF CallsInv, DeviceTypes
    <3>2. QED
      BY <2>1, <3>1
  <2>4. Done(queue', dev', info', plan', call')
    BY <2>1, <2>2, <2>3 DEF Done
  <2>5. pc' = "download" => Good(call)
    BY <2>1, <2>2 DEF Done, Good, Factors
  <2>6. QED
    BY <2>1, <2>4, <2>5 DEF ValueInv
<1>15. CASE Download
  <2>1. /\ pc = "download" /\ pc' = "unwind" /\ plan' = plan /\ UNCHANGED call
        /\ HasWork => ~fault /\ queue = <<>>
        /\ result' = [i \in DOMAIN plan.writes |-> dev[plan.writes[i]]]
    BY <1>2, <1>15 DEF Download, Idle
  <2>2. Good(call)
    BY <1>1, <2>1 DEF ValueInv
  <2>3. \A i \in DOMAIN plan.writes : Own(dev[plan.writes[i]], plan, call)
    <3>1. CASE ~HasWork
      BY <3>1 DEF HasWork, Own
    <3>2. CASE HasWork
      <4>1. ~(\A x \in Range(plan.writes) : dev[x] = None)
        BY <3>2 DEF HasWork, Range
      <4>2. Done(queue, dev, info, plan, call)
        BY <1>1, <2>1, <3>2, <4>1 DEF ValueInv, Pending
      <4>3. QED
        BY <4>2 DEF Done, Range
    <3>3. QED
      BY <3>1, <3>2
  <2>4. \A i \in DOMAIN result' : Own(result'[i], plan', call')
    BY <2>1, <2>3
  <2>5. QED
    BY <2>1, <2>2, <2>4 DEF ValueInv
<1>16. CASE Unwind
  <2>1. pc' = "ended" /\ plan' = plan /\ UNCHANGED <<call, outcome, result>>
    BY <1>2, <1>16 DEF Unwind
  <2>2. QED
    BY <1>1, <2>1 DEF ValueInv
<1>17. CASE StreamStep
  <2>1. /\ queue # <<>> /\ queue' = Tail(queue) /\ plan' = plan
        /\ UNCHANGED <<call, pc, at, fault, outcome, result>>
    BY <1>2, <1>17 DEF StreamStep, Idle
  <2>2. Len(queue) \in 1..Len(queue) /\ Len(queue') = Len(queue) - 1
    BY <1>1, <2>1, Tailed
  <2>3. ASSUME pc # "idle", NEW j \in DOMAIN plan.fills,
               Filled(plan.fills[j], queue, Len(queue), dev, call)
        PROVE  Filled(plan.fills[j], queue', Len(queue'), dev', call)
    <3>1. plan.fills[j].to \in ArrayIds
      BY <1>3, <2>3, PlanNames
    <3>2. QED
      BY <1>1, <1>17, <2>1, <2>2, <2>3, <3>1, FilledTail
  <2>4. ASSUME pc \in {"info", "download"}, Pending(queue, dev, plan, call)
        PROVE  Pending(queue', dev', plan, call) \/ Done(queue', dev', info', plan, call)
    <3>1. ~plan.refuses
      BY <1>1, <2>4, LateRefusal DEF PhaseInv, CallInv, plan, Solvers, Factors
    <3>2. QED
      BY <1>1, <1>17, <2>4, <3>1, KernelRuns
  <2>5. ~Done(queue, dev, info, plan, call)
    BY <2>1 DEF Done
  <2>6. ASSUME pc # "idle", \A x \in Range(plan.writes) : dev[x] = None
        PROVE  \A x \in Range(plan.writes) : dev'[x] = None
    <3>1. \A x \in ArrayIds : dev'[x] = None <=> dev[x] = None
      BY <1>1, <1>17, StreamMemory DEF DeviceInv, StreamInv
    <3>2. QED
      BY <1>3, <2>6, <3>1, PlanNames
  <2>7. pc = "fill" /\ ~fault =>
          \A j \in DOMAIN plan.fills : j < at => Filled(plan.fills[j], queue', Len(queue'), dev', call)
    BY <1>1, <2>3 DEF ValueInv
  <2>8. pc \in {"launch", "solve"} /\ ~fault =>
          \A j \in DOMAIN plan.fills : Filled(plan.fills[j], queue', Len(queue'), dev', call)
    BY <1>1, <2>3 DEF ValueInv
  <2>9. pc = "info" =>
          fault \/ Pending(queue', dev', plan, call) \/ Done(queue', dev', info', plan, call)
    BY <1>1, <2>4, <2>5 DEF ValueInv
  <2>10. pc = "download" =>
           \/ fault \/ Pending(queue', dev', plan, call) \/ Done(queue', dev', info', plan, call)
           \/ \A x \in Range(plan.writes) : dev'[x] = None
    BY <1>1, <2>4, <2>5, <2>6 DEF ValueInv
  <2>11. QED
    BY <1>1, <2>1, <2>7, <2>8, <2>9, <2>10 DEF ValueInv
<1>18. CASE DeviceFault
  <2>1. fault' /\ plan' = plan /\ UNCHANGED <<call, pc, outcome, result>>
    BY <1>2, <1>18 DEF DeviceFault
  <2>2. QED
    BY <1>1, <2>1 DEF ValueInv
<1>19. QED
  BY Zenon, <1>6, <1>7, <1>8, <1>9, <1>10, <1>11, <1>12, <1>13, <1>14, <1>15, <1>16, <1>17, <1>18
  DEF Next, HostStep, vars, deviceVars, SetRunMode

\* Where the values of the call are, in every reachable state.
THEOREM ResultInvariance == Spec => []ResultInv
<1>1. ResultInv /\ [Next]_vars => ResultInv'
  BY ResultInvStep
<1>2. QED
  BY <1>1, ResultInvInit, PTL DEF Spec

\* A value that R gets was computed by the routine it called from the arguments of that
\* call, has the right shape, and is no factor of a matrix that has none: in either mode,
\* behind any work queued before, after errors of earlier calls and whatever status they
\* left.
THEOREM ResultsAreOwn == Spec => []ResultIsOwn
<1>1. ResultInv => ResultIsOwn
  <2> SUFFICES ASSUME ResultInv, pc = "ended", outcome = "returned"
               PROVE  /\ \A i \in DOMAIN result :
                           \/ result[i] = None
                           \/ /\ result[i].is = "computed" /\ result[i].by = call.routine
                              /\ \A k \in DOMAIN plan.reads : result[i].from[k] = Given(plan.reads[k])
                      /\ call.routine = "dpotrf" => call.args.good
                      /\ IntLengths => plan.shape = Reference(call.routine, call.args).shape
    BY DEF ResultIsOwn
  <2>1. ValueInv /\ CallInv /\ PhaseInv
    BY DEF ResultInv, DeviceInv, CallsInv
  <2>2. \A x : Given(x) = GivenIn(x, plan, call)
    BY DEF Given, GivenIn, In, Argument
  <2>3. \A i \in DOMAIN result : Own(result[i], plan, call)
    BY <2>1 DEF ValueInv
  <2>4. call.routine = "dpotrf" => call.args.good
    BY <2>1 DEF ValueInv, Good
  <2>5. call.routine \in Routines /\ call.args \in Args(call.routine)
    BY <2>1 DEF CallInv
  <2>6. ASSUME IntLengths PROVE plan.shape = Reference(call.routine, call.args).shape
    <3>1. ShortArgs(call.routine, call.args)
      BY <2>6 DEF IntLengths, ShortArgs
    <3>2. Exact(plan, Reference(call.routine, call.args))
      BY <2>5, <3>1, PlansAreExact DEF plan
    <3>3. QED
      BY <2>1, <3>2 DEF PhaseInv, Exact
  <2>7. QED
    BY <2>2, <2>3, <2>4, <2>6 DEF Own
<1>2. QED
  BY <1>1, ResultInvariance, PTL
=============================================================================
