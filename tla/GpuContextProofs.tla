-------------------------- MODULE GpuContextProofs --------------------------
(***************************************************************************)
(* Proofs about GpuContext: the manager never leaves a dangling pointer,   *)
(* unfinished device work is confined to live ASYNC contexts, and reads    *)
(* find what was written, for any number of names, objects and buffers.    *)
(***************************************************************************)
EXTENDS GpuContext, TLAPS

\* CurrentIsAlive is not inductive alone: a delete is safe because the map names only
\* live objects, each once. WorkIsContained needs the current context to be alive.
Inv == TypeOK /\ CurrentIsAlive /\ MapIsSound /\ WorkIsContained

\* The state after GetInstance, one default context on the CPU, satisfies Inv.
LEMMA InitInv == Init => Inv
  BY GpuAssumption DEF GpuAssumption, Init, Inv, TypeOK, CurrentIsAlive, MapIsSound, WorkIsContained,
     Mapped, Idle, Objects, Values, NoValue, Write, Default

-----------------------------------------------------------------------------
\* SetOperationPlacement waits for the old stream, whether the new one comes or not.
LEMMA SetPlacementStep ==
  ASSUME Inv, NEW n \in Names, NEW p \in {"CPU", "GPU"}, SetOperationPlacement(n, p)
  PROVE  Inv'
<1>1. TypeOK'
  BY DEF Inv, TypeOK, SetOperationPlacement, Place, Sync, managerVars
<1>2. CurrentIsAlive' /\ MapIsSound'
  BY DEF Inv, CurrentIsAlive, MapIsSound, Mapped, SetOperationPlacement, managerVars
<1>3. WorkIsContained'
  BY DEF Inv, TypeOK, MapIsSound, WorkIsContained, Mapped, Idle, SetOperationPlacement, Place, Sync, managerVars
<1>q. QED BY <1>1, <1>2, <1>3 DEF Inv

\* A context that has just become SYNC is idle.
LEMMA ModeStep ==
  ASSUME Inv, NEW o \in Objects, NEW m \in {"SYNC", "ASYNC"}, Mode(o, m),
         UNCHANGED <<managerVars, mem, want, raced, stale>>
  PROVE  Inv'
<1>1. TypeOK'
  BY DEF Inv, TypeOK, Mode, Sync, managerVars
<1>2. CurrentIsAlive' /\ MapIsSound'
  BY DEF Inv, CurrentIsAlive, MapIsSound, Mapped, managerVars
<1>3. WorkIsContained'
  BY DEF Inv, TypeOK, WorkIsContained, Idle, Mode, Sync, managerVars
<1>q. QED BY <1>1, <1>2, <1>3 DEF Inv

\* A step that changes neither contexts nor streams keeps Inv if the types hold.
LEMMA BufferStep ==
  ASSUME Inv, TypeOK', UNCHANGED <<managerVars, contextVars>>
  PROVE  Inv'
  BY DEF Inv, CurrentIsAlive, MapIsSound, WorkIsContained, Mapped, Idle, managerVars, contextVars

\* SyncContext and SyncAll change what the program may expect and nothing else.
LEMMA SyncStep ==
  ASSUME Inv, NEW S, Sync(S), UNCHANGED <<managerVars, contextVars, mem, want, raced, stale>>
  PROVE  Inv'
<1>1. TypeOK'
  BY DEF Inv, TypeOK, Sync, managerVars, contextVars
<1>q. QED BY <1>1, BufferStep DEF Inv

\* A new object is alive and shared with no other name, even when its name was taken.
LEMMA CreateStep ==
  ASSUME Inv, NEW n \in Names, CreateRunContext(n)
  PROVE  Inv'
<1>1. TypeOK'
  <2>1. created + 1 \in Objects /\ alive' \subseteq 1..(created + 1)
    BY GpuAssumption DEF GpuAssumption, Inv, TypeOK, Objects, CreateRunContext
  <2>q. QED BY <2>1 DEF Inv, TypeOK, CreateRunContext, contextVars, bufferVars
<1>2. CurrentIsAlive'
  BY DEF Inv, CurrentIsAlive, CreateRunContext
<1>3. MapIsSound'
  <2>1. PICK new : new = created + 1 /\ new \notin alive
    BY GpuAssumption DEF GpuAssumption, Inv, TypeOK, Objects
  <2>2. /\ DOMAIN contexts' = DOMAIN contexts \union {n}
        /\ contexts'[n] = new
        /\ \A m \in DOMAIN contexts \ {n} : contexts'[m] = contexts[m]
        /\ alive' = alive \union {new}
    BY <2>1 DEF CreateRunContext
  <2>3. \A m \in DOMAIN contexts : contexts[m] \in alive
    BY DEF Inv, MapIsSound, Mapped
  <2>q. QED BY <2>1, <2>2, <2>3 DEF Inv, MapIsSound, Mapped
<1>4. WorkIsContained'
  BY DEF Inv, WorkIsContained, Idle, CreateRunContext, contextVars
<1>q. QED BY <1>1, <1>2, <1>3, <1>4 DEF Inv

\* Selecting a context by name selects a live one.
LEMMA SelectStep ==
  ASSUME Inv, NEW n \in Names, SetOperationContext(n)
  PROVE  Inv'
<1>1. TypeOK' /\ MapIsSound'
  BY DEF Inv, TypeOK, MapIsSound, Mapped, SetOperationContext, contextVars, bufferVars
<1>2. CurrentIsAlive'
  BY DEF Inv, CurrentIsAlive, MapIsSound, Mapped, SetOperationContext
<1>3. WorkIsContained'
  BY DEF Inv, WorkIsContained, Idle, SetOperationContext, contextVars
<1>q. QED BY <1>1, <1>2, <1>3 DEF Inv

\* Destroyed contexts have no work left: whatever has work is usable, and is waited for.
LEMMA DestroyContains ==
  ASSUME Inv, NEW S, Destroy(S)
  PROVE  WorkIsContained'
  BY DEF Inv, TypeOK, WorkIsContained, Idle, Usable, Destroy

\* A deleted context is neither current nor named any more.
LEMMA DeleteStep ==
  ASSUME Inv, NEW n \in Names, DeleteRunContext(n)
  PROVE  Inv'
<1>1. TypeOK'
  BY DEF Inv, TypeOK, DeleteRunContext, Destroy
<1>2. CurrentIsAlive'
  <2>1. CASE current = contexts[n]
    BY <2>1 DEF Inv, CurrentIsAlive, MapIsSound, Mapped, DeleteRunContext, Destroy
  <2>2. CASE current # contexts[n]
    BY <2>2 DEF Inv, CurrentIsAlive, DeleteRunContext, Destroy
  <2>q. QED BY <2>1, <2>2
<1>3. MapIsSound'
  BY DEF Inv, MapIsSound, Mapped, DeleteRunContext, Destroy
<1>4. WorkIsContained'
  BY DestroyContains DEF DeleteRunContext
<1>q. QED BY <1>1, <1>2, <1>3, <1>4 DEF Inv

\* After DestroyInstance there is no map and no current context.
LEMMA DestroyInstanceStep ==
  ASSUME Inv, DestroyInstance
  PROVE  Inv'
<1>1. TypeOK'
  BY DEF Inv, TypeOK, DestroyInstance, Destroy
<1>2. CurrentIsAlive' /\ MapIsSound'
  BY DEF CurrentIsAlive, MapIsSound, Mapped, DestroyInstance
<1>3. WorkIsContained'
  BY DestroyContains DEF DestroyInstance
<1>q. QED BY <1>1, <1>2, <1>3 DEF Inv

\* Every call of the manager keeps Inv.
LEMMA ManagerStep ==
  ASSUME Inv, Manager
  PROVE  Inv'
<1>1. ASSUME NEW n \in Names, NEW p \in {"CPU", "GPU"}, SetOperationPlacement(n, p) PROVE Inv'
  BY <1>1, SetPlacementStep
<1>2. ASSUME NEW n \in Names, NEW m \in {"SYNC", "ASYNC"}, SetRunMode(n, m) PROVE Inv'
  BY <1>2, ModeStep DEF SetRunMode, Inv, TypeOK
<1>3. ASSUME NEW n \in Names, SyncContext(n) PROVE Inv'
  BY <1>3, SyncStep DEF SyncContext
<1>4. ASSUME SyncAll \/ SyncAllThrows PROVE Inv'
  BY <1>4, SyncStep DEF SyncAll, SyncAllThrows
<1>5. ASSUME NEW n \in Names, CreateRunContext(n) PROVE Inv'
  BY <1>5, CreateStep
<1>6. ASSUME NEW n \in Names, SetOperationContext(n) PROVE Inv'
  BY <1>6, SelectStep
<1>7. ASSUME NEW n \in Names, DeleteRunContext(n) PROVE Inv'
  BY <1>7, DeleteStep
<1>8. ASSUME DestroyInstance PROVE Inv'
  BY <1>8, DestroyInstanceStep
<1>q. QED BY <1>1, <1>2, <1>3, <1>4, <1>5, <1>6, <1>7, <1>8 DEF Manager

-----------------------------------------------------------------------------
\* A copy to the device leaves work behind only in ASYNC mode.
LEMMA CopyToGpuStep ==
  ASSUME Inv, NEW b \in Buffers, NEW v \in Values, CopyToGpu(b, v)
  PROVE  Inv'
<1>1. TypeOK'
  <2>1. want' \in [Buffers -> Values \union {NoValue}] /\ raced' \subseteq Buffers
    BY DEF Inv, TypeOK, CopyToGpu, Wrote
  <2>2. CASE mode[current] = "SYNC"
    BY <2>1, <2>2 DEF Inv, TypeOK, CopyToGpu, managerVars
  <2>3. CASE mode[current] # "SYNC"
    <3>1. PICK w \in Write : w = [buf |-> b, val |-> v]
      BY DEF Write
    <3>2. PICK q \in Seq(Write) : q = queue[current]
      BY DEF Inv, TypeOK
    <3>3. Append(q, w) \in Seq(Write)
      OBVIOUS
    <3>4. queue' \in [Objects -> Seq(Write)]
      BY <2>3, <3>1, <3>2, <3>3 DEF Inv, TypeOK, CopyToGpu
    <3>5. unsynced' \in [Buffers -> SUBSET Objects]
      <4>1. PICK U \in SUBSET Objects : U = unsynced[b] \union {current}
        BY DEF Inv, TypeOK
      <4>2. unsynced' = [unsynced EXCEPT ![b] = U]
        BY <2>3, <4>1 DEF CopyToGpu
      <4>q. QED BY <4>1, <4>2 DEF Inv, TypeOK
    <3>6. mem' = mem
      BY <2>3 DEF CopyToGpu
    <3>q. QED BY <2>1, <3>4, <3>5, <3>6 DEF Inv, TypeOK, CopyToGpu, managerVars
  <2>q. QED BY <2>2, <2>3
<1>2. CurrentIsAlive' /\ MapIsSound'
  BY DEF Inv, CurrentIsAlive, MapIsSound, Mapped, CopyToGpu, managerVars
<1>3. WorkIsContained'
  BY DEF Inv, TypeOK, CurrentIsAlive, WorkIsContained, Idle, Usable, CopyToGpu, managerVars
<1>q. QED BY <1>1, <1>2, <1>3 DEF Inv

\* The device only takes work away.
LEMMA StreamStepInv ==
  ASSUME Inv, NEW o \in Objects, StreamStep(o)
  PROVE  Inv'
<1>1. Head(queue[o]) \in Write /\ Tail(queue[o]) \in Seq(Write)
  BY DEF Inv, TypeOK, StreamStep, Idle
<1>2. TypeOK'
  BY <1>1 DEF Inv, TypeOK, StreamStep, Write, managerVars
<1>3. CurrentIsAlive' /\ MapIsSound'
  BY DEF Inv, CurrentIsAlive, MapIsSound, Mapped, StreamStep, managerVars
<1>4. WorkIsContained'
  BY DEF Inv, TypeOK, WorkIsContained, Idle, StreamStep, managerVars
<1>q. QED BY <1>2, <1>3, <1>4 DEF Inv

\* The kernel's result is a value.
LEMMA KernelStep ==
  ASSUME Inv, NEW a \in Buffers, NEW b \in Buffers, NEW r \in Buffers, GpuVectorAddKernel(a, b, r)
  PROVE  Inv'
<1>1. \A x, y \in Int : (x + y) % Modulus \in Values
  BY GpuAssumption DEF GpuAssumption, Values
<1>2. mem \in [Buffers -> Int] /\ want \in [Buffers -> Int]
  BY GpuAssumption DEF GpuAssumption, Inv, TypeOK, Values, NoValue
<1>3. (mem[a] + mem[b]) % Modulus \in Values /\ (want[a] + want[b]) % Modulus \in Values
  BY <1>1, <1>2
<1>4. mem' \in [Buffers -> Values \union {NoValue}] /\ want' \in [Buffers -> Values \union {NoValue}]
  BY <1>3 DEF Inv, TypeOK, GpuVectorAddKernel
<1>5. TypeOK'
  BY <1>4 DEF Inv, TypeOK, GpuVectorAddKernel, managerVars, contextVars
<1>q. QED BY <1>5, BufferStep DEF GpuVectorAddKernel

\* Every use of the buffers keeps Inv.
LEMMA WorkStep ==
  ASSUME Inv, Work
  PROVE  Inv'
<1>1. ASSUME NEW b \in Buffers, GpuAlloc(b) PROVE Inv'
  <2>1. TypeOK' BY <1>1 DEF Inv, TypeOK, GpuAlloc, managerVars, contextVars
  <2>q. QED BY <1>1, <2>1, BufferStep DEF GpuAlloc
<1>2. ASSUME NEW b \in Buffers, GpuFree(b) PROVE Inv'
  <2>1. TypeOK' BY <1>2 DEF Inv, TypeOK, GpuFree, managerVars, contextVars
  <2>q. QED BY <1>2, <2>1, BufferStep DEF GpuFree
<1>3. ASSUME NEW b \in Buffers, CopyFromGpu(b) PROVE Inv'
  <2>1. TypeOK' BY <1>3 DEF Inv, TypeOK, CopyFromGpu, managerVars, contextVars
  <2>q. QED BY <1>3, <2>1, BufferStep DEF CopyFromGpu
<1>4. ASSUME NEW b \in Buffers, NEW v \in Values, CopyToGpu(b, v) PROVE Inv'
  BY <1>4, CopyToGpuStep
<1>5. ASSUME NEW a \in Buffers, NEW b \in Buffers, NEW r \in Buffers, GpuVectorAddKernel(a, b, r)
      PROVE  Inv'
  BY <1>5, KernelStep
<1>6. ASSUME ForcedSyncWork PROVE Inv'
  <2>1. PICK o \in Objects : o = current BY DEF Inv, TypeOK
  <2>q. QED BY <1>6, <2>1, ModeStep DEF ForcedSyncWork
<1>q. QED BY <1>1, <1>2, <1>3, <1>4, <1>5, <1>6 DEF Work

\* Inv is inductive: every call and every device step keeps it.
LEMMA NextInv == Inv /\ [Next]_vars => Inv'
<1> SUFFICES ASSUME Inv, [Next]_vars PROVE Inv'
  OBVIOUS
<1>1. CASE Manager BY <1>1, ManagerStep
<1>2. CASE Work BY <1>2, WorkStep
<1>3. ASSUME NEW o \in Objects, BadStream(o) PROVE Inv'
  <2>1. TypeOK' BY <1>3 DEF Inv, TypeOK, BadStream, contextVars, bufferVars
  <2>2. MapIsSound' BY <1>3 DEF Inv, MapIsSound, Mapped, BadStream
  <2>3. CurrentIsAlive' BY <1>3 DEF CurrentIsAlive, BadStream
  <2>4. WorkIsContained' BY <1>3 DEF Inv, WorkIsContained, Idle, BadStream, contextVars
  <2>q. QED BY <2>1, <2>2, <2>3, <2>4 DEF Inv
<1>4. ASSUME NEW o \in Objects, StreamStep(o) PROVE Inv'
  BY <1>4, StreamStepInv
<1>5. CASE UNCHANGED vars
  BY <1>5 DEF Inv, TypeOK, CurrentIsAlive, MapIsSound, Mapped, WorkIsContained, Idle, vars,
     managerVars, contextVars, bufferVars
<1>q. QED BY <1>1, <1>2, <1>3, <1>4, <1>5 DEF Next

\* The manager's invariant holds in every reachable state.
THEOREM ManagerInvariant == Spec => []Inv
<1>q. QED BY InitInv, NextInv, PTL DEF Spec

\* Whatever contexts the program creates, overwrites, selects and deletes, the current
\* context that the GPU calls use has not been deleted.
THEOREM CurrentNeverDangles == Spec => []CurrentIsAlive
<1>1. Inv => CurrentIsAlive BY DEF Inv
<1>q. QED BY <1>1, ManagerInvariant, PTL

\* No two names share a context and none names a deleted one.
THEOREM MapStaysSound == Spec => []MapIsSound
<1>1. Inv => MapIsSound BY DEF Inv
<1>q. QED BY <1>1, ManagerInvariant, PTL

\* Device work is in flight only in a live ASYNC context on the GPU.
THEOREM WorkStaysContained == Spec => []WorkIsContained
<1>1. Inv => WorkIsContained BY DEF Inv
<1>q. QED BY <1>1, ManagerInvariant, PTL

-----------------------------------------------------------------------------
(***************************************************************************)
(* The buffers: which value a read through any context must find, for any  *)
(* interleaving of streams.                                                *)
(***************************************************************************)
\* q holds an unfinished copy to b, and its last one writes v.
Holds(q, b) == \E i \in DOMAIN q : q[i].buf = b
EndsWith(q, b, v) ==
  \A i \in DOMAIN q :
    q[i].buf = b /\ (\A k \in DOMAIN q : i < k => q[k].buf # b) => q[i].val = v

\* An unfinished copy goes to memory that is there, and is one the program has not
\* synchronized with.
Tracked ==
  \A o \in Objects, b \in Buffers : Holds(queue[o], b) => o \in unsynced[b] /\ Live(b)

\* Of a buffer that no two contexts have written unsynchronized, the last unfinished
\* copy, or the memory when there is none, has what the program wrote last.
LastCopyRight == \A b \in Buffers \ raced, o \in Objects : EndsWith(queue[o], b, want[b])
Settled ==
  \A b \in Buffers \ raced : (\A o \in Objects : ~Holds(queue[o], b)) => mem[b] = want[b]

BufferInv == Inv /\ Tracked /\ LastCopyRight /\ Settled /\ ReadsAreFresh

\* A copy that is appended is the last one to its buffer.
LEMMA AppendCopy ==
  ASSUME NEW q \in Seq(Write), NEW w \in Write, NEW b
  PROVE  /\ Holds(Append(q, w), b) <=> Holds(q, b) \/ w.buf = b
         /\ w.buf = b => EndsWith(Append(q, w), b, w.val)
         /\ \A v : w.buf # b /\ EndsWith(q, b, v) => EndsWith(Append(q, w), b, v)
<1> DEFINE t == Append(q, w)
<1>1. /\ DOMAIN q = 1..Len(q) /\ Len(q) \in Nat /\ DOMAIN t = 1..(Len(q) + 1)
      /\ t[Len(q) + 1] = w /\ \A i \in 1..Len(q) : t[i] = q[i]
  OBVIOUS
<1> HIDE DEF t
<1>2. Holds(t, b) <=> Holds(q, b) \/ w.buf = b
  BY <1>1 DEF Holds
<1>3. ASSUME w.buf = b
      PROVE  EndsWith(t, b, w.val)
  BY <1>1, <1>3 DEF EndsWith
<1>4. ASSUME NEW v, w.buf # b, EndsWith(q, b, v)
      PROVE  EndsWith(t, b, v)
  BY <1>1, <1>4 DEF EndsWith
<1>5. QED
  BY <1>2, <1>3, <1>4 DEF t

\* When the oldest copy is done, the last one is still the last one; when it was the
\* only one to its buffer, it was the last.
LEMMA TailCopy ==
  ASSUME NEW q \in Seq(Write), q # <<>>, NEW b
  PROVE  /\ Holds(Tail(q), b) => Holds(q, b)
         /\ Holds(q, b) => Holds(Tail(q), b) \/ Head(q).buf = b
         /\ Holds(q, Head(q).buf)
         /\ \A v : EndsWith(q, b, v) => EndsWith(Tail(q), b, v)
         /\ \A v : EndsWith(q, b, v) /\ Head(q).buf = b /\ ~Holds(Tail(q), b) => Head(q).val = v
<1> DEFINE t == Tail(q)
<1>1. /\ DOMAIN q = 1..Len(q) /\ Len(q) \in Nat /\ Len(q) # 0
      /\ DOMAIN t = 1..(Len(q) - 1) /\ Head(q) = q[1]
      /\ \A i \in 1..(Len(q) - 1) : t[i] = q[i + 1]
  OBVIOUS
<1> HIDE DEF t
<1>2. \A i \in DOMAIN q : i # 1 => i - 1 \in DOMAIN t /\ t[i - 1] = q[i]
  BY <1>1
<1>3. \A i \in DOMAIN t : i + 1 \in DOMAIN q /\ t[i] = q[i + 1]
  BY <1>1
<1>4. Holds(t, b) => Holds(q, b)
  BY <1>3 DEF Holds
<1>5. Holds(q, b) => Holds(t, b) \/ Head(q).buf = b
  BY <1>1, <1>2 DEF Holds
<1>6. 1 \in DOMAIN q /\ Holds(q, Head(q).buf)
  BY <1>1 DEF Holds
<1>7. ASSUME NEW v, EndsWith(q, b, v)
      PROVE  EndsWith(t, b, v)
  <2> SUFFICES ASSUME NEW i \in DOMAIN t, t[i].buf = b, \A k \in DOMAIN t : i < k => t[k].buf # b
               PROVE  t[i].val = v
    BY DEF EndsWith
  <2>1. i + 1 \in DOMAIN q /\ q[i + 1].buf = b
    BY <1>3
  <2>2. ASSUME NEW k \in DOMAIN q, i + 1 < k
        PROVE  q[k].buf # b
    <3>1. k - 1 \in DOMAIN t /\ i < k - 1 /\ t[k - 1] = q[k]
      BY <1>1, <1>2, <2>2
    <3>2. QED
      BY <3>1
  <2>3. q[i + 1].val = v
    BY <1>7, <2>1, <2>2 DEF EndsWith
  <2>4. QED
    BY <1>3, <2>3
<1>8. ASSUME NEW v, EndsWith(q, b, v), Head(q).buf = b, ~Holds(t, b)
      PROVE  Head(q).val = v
  <2>1. \A k \in DOMAIN q : 1 < k => q[k].buf # b
    BY <1>1, <1>2, <1>8 DEF Holds
  <2>2. QED
    BY <1>1, <1>6, <1>8, <2>1 DEF EndsWith
<1>9. QED
  BY <1>4, <1>5, <1>6, <1>7, <1>8 DEF t

\* A stream that is idle holds no copy.
LEMMA IdleHoldsNone ==
  ASSUME NEW o, Idle(o), NEW b
  PROVE  ~Holds(queue[o], b) /\ \A v : EndsWith(queue[o], b, v)
<1>1. DOMAIN queue[o] = {}
  BY DEF Idle
<1>2. QED
  BY <1>1 DEF Holds, EndsWith

\* A context the program synchronizes with is idle, wherever it is placed.
LEMMA SyncIsIdle ==
  ASSUME Inv, NEW S, NEW o \in S \intersect Objects, Sync(S) \/ Destroy(S)
  PROVE  Idle(o)
  BY DEF Inv, TypeOK, WorkIsContained, Sync, Destroy, Usable

\* A call that only forgets idle contexts keeps everything.
LEMMA ForgetStep ==
  ASSUME BufferInv, Inv', UNCHANGED <<queue, mem, want, raced, stale>>,
         \A b \in Buffers : \A o \in Objects : o \in unsynced[b] /\ o \notin unsynced'[b] => Idle(o)
  PROVE  BufferInv'
<1>1. Tracked'
  <2> SUFFICES ASSUME NEW o \in Objects, NEW b \in Buffers, Holds(queue[o], b)
               PROVE  o \in unsynced'[b] /\ Live(b)
    BY DEF Tracked, Live, Holds
  <2>1. ~Idle(o)
    BY IdleHoldsNone
  <2>2. QED
    BY <2>1 DEF BufferInv, Tracked
<1>2. LastCopyRight' /\ Settled' /\ ReadsAreFresh'
  BY DEF BufferInv, LastCopyRight, Settled, ReadsAreFresh, Holds, EndsWith
<1>3. QED
  BY <1>1, <1>2 DEF BufferInv

\* The calls of the manager wait for whatever they make the program rely on.
LEMMA ManagerBuffers ==
  ASSUME BufferInv, Inv',
         Manager \/ ForcedSyncWork \/ \E o \in Objects : BadStream(o)
  PROVE  BufferInv'
<1> DEFINE Forgets == \A b \in Buffers : \A o \in Objects :
                        o \in unsynced[b] /\ o \notin unsynced'[b] => Idle(o)
<1>0. Inv
  BY DEF BufferInv
<1>1. ASSUME NEW S, Sync(S) \/ Destroy(S) PROVE Forgets
  <2>1. unsynced' = [b \in Buffers |-> unsynced[b] \ S]
    BY <1>1 DEF Sync, Destroy
  <2>2. QED
    BY <1>0, <1>1, <2>1, SyncIsIdle
<1>2. ASSUME NEW o, NEW m, Mode(o, m) PROVE Forgets /\ queue' = queue
  BY <1>1, <1>2 DEF Mode
<1>3. ASSUME NEW o, NEW p, Place(o, p) PROVE Forgets /\ queue' = queue
  BY <1>1, <1>3 DEF Place
<1>4. CASE ForcedSyncWork
  BY <1>0, <1>2, <1>4, ForgetStep DEF ForcedSyncWork
<1>5. ASSUME NEW o \in Objects, BadStream(o) PROVE BufferInv'
  BY <1>0, <1>5, ForgetStep DEF BadStream, contextVars, bufferVars
<1>6. ASSUME NEW n \in Names, NEW p, SetOperationPlacement(n, p) PROVE BufferInv'
  BY <1>0, <1>3, <1>6, ForgetStep DEF SetOperationPlacement
<1>7. ASSUME NEW n \in Names, NEW m, SetRunMode(n, m) PROVE BufferInv'
  BY <1>0, <1>2, <1>7, ForgetStep DEF SetRunMode
<1>8. CASE SyncAll \/ SyncAllThrows \/ \E n \in Names : SyncContext(n)
  <2>1. Forgets
    BY <1>1, <1>8 DEF SyncAll, SyncAllThrows, SyncContext
  <2>2. UNCHANGED <<queue, mem, want, raced, stale>>
    BY <1>8 DEF SyncAll, SyncAllThrows, SyncContext, contextVars
  <2>3. QED
    BY <1>0, <2>1, <2>2, ForgetStep
<1>9. ASSUME NEW n \in Names, CreateRunContext(n) \/ SetOperationContext(n) PROVE BufferInv'
  BY <1>0, <1>9, ForgetStep DEF CreateRunContext, SetOperationContext, contextVars, bufferVars
<1>10. CASE DestroyInstance \/ \E n \in Names : DeleteRunContext(n)
  <2>1. Forgets
    BY <1>1, <1>10 DEF DestroyInstance, DeleteRunContext
  <2>2. UNCHANGED <<queue, mem, want, raced, stale>>
    BY <1>10 DEF DestroyInstance, DeleteRunContext, Destroy
  <2>3. QED
    BY <1>0, <2>1, <2>2, ForgetStep
<1>11. QED
  BY <1>4, <1>5, <1>6, <1>7, <1>8, <1>9, <1>10 DEF Manager

\* Every unfinished copy to a buffer on which the program may rely through an idle
\* context has been done: the memory is what was written last.
LEMMA ReliableIsSettled ==
  ASSUME BufferInv, NEW o, Idle(o), NEW b \in Buffers, Reliable(o, b)
  PROVE  mem[b] = want[b]
<1>1. \A p \in Objects : ~Holds(queue[p], b)
  BY IdleHoldsNone DEF BufferInv, Tracked, Reliable
<1>2. QED
  BY <1>1 DEF BufferInv, Settled, Reliable

\* The device finishes a copy: the last one to a buffer leaves there what was written.
LEMMA StreamBuffers ==
  ASSUME BufferInv, Inv', NEW o \in Objects, StreamStep(o)
  PROVE  BufferInv'
<1> DEFINE w == Head(queue[o])
<1>1. /\ queue[o] \in Seq(Write) /\ queue[o] # <<>> /\ w \in Write
      /\ mem' = [mem EXCEPT ![w.buf] = w.val]
      /\ queue'[o] = Tail(queue[o]) /\ \A p \in Objects : p # o => queue'[p] = queue[p]
      /\ UNCHANGED <<want, unsynced, raced, stale>>
  BY DEF BufferInv, Inv, TypeOK, StreamStep, Idle
<1>2. w.buf \in Buffers /\ w.val # NoValue /\ mem \in [Buffers -> Values \union {NoValue}]
  <2>1. w.buf \in Buffers /\ w.val \in Values
    BY <1>1 DEF Write
  <2>2. NoValue \notin Values
    BY GpuAssumption DEF Values, NoValue
  <2>3. QED
    BY <2>1, <2>2 DEF BufferInv, Inv, TypeOK
<1>3. \A b : \A p \in Objects : Holds(queue'[p], b) => Holds(queue[p], b)
  BY <1>1, TailCopy
<1>4. \A b \in Buffers : Live(b) => Live(b)'
  BY <1>1, <1>2 DEF Live
<1>5. Tracked'
  BY <1>1, <1>3, <1>4 DEF BufferInv, Tracked, Holds
<1>6. LastCopyRight'
  <2> SUFFICES ASSUME NEW b \in Buffers \ raced, NEW p \in Objects
               PROVE  EndsWith(queue'[p], b, want[b])
    BY <1>1 DEF LastCopyRight, EndsWith
  <2>1. EndsWith(queue[p], b, want[b])
    BY DEF BufferInv, LastCopyRight
  <2>2. CASE p = o
    <3>1. PICK q \in Seq(Write) : q = queue[o] /\ q # <<>>
      BY <1>1
    <3>2. EndsWith(Tail(q), b, want[b])
      BY <2>1, <2>2, <3>1, TailCopy
    <3>3. QED
      BY <1>1, <2>2, <3>1, <3>2
  <2>3. CASE p # o
    BY <1>1, <2>1, <2>3
  <2>4. QED
    BY <2>2, <2>3
<1>7. Settled'
  <2> SUFFICES ASSUME NEW b \in Buffers \ raced, \A p \in Objects : ~Holds(queue'[p], b)
               PROVE  mem'[b] = want[b]
    BY <1>1 DEF Settled, Holds
  <2>1. CASE w.buf = b
    <3>1. EndsWith(queue[o], b, want[b])
      BY DEF BufferInv, LastCopyRight
    <3>2. ~Holds(Tail(queue[o]), b)
      BY <1>1
    <3>3. w.val = want[b]
      BY <1>1, <2>1, <3>1, <3>2, TailCopy
    <3>4. QED
      BY <1>1, <1>2, <2>1, <3>3
  <2>2. CASE w.buf # b
    <3>1. \A p \in Objects : ~Holds(queue[p], b)
      BY <1>1, <2>2, TailCopy
    <3>2. mem'[b] = mem[b]
      BY <1>1, <1>2, <2>2
    <3>3. QED
      BY <3>1, <3>2 DEF BufferInv, Settled
  <2>3. QED
    BY <2>1, <2>2
<1>8. QED
  BY <1>1, <1>5, <1>6, <1>7 DEF BufferInv, ReadsAreFresh

\* New memory has no unfinished copies; cudaFree waits for all there are.
LEMMA AllocBuffers ==
  ASSUME BufferInv, Inv', NEW b \in Buffers, GpuAlloc(b) \/ GpuFree(b)
  PROVE  BufferInv'
<1>0. mem \in [Buffers -> Values \union {NoValue}] /\ want \in [Buffers -> Values \union {NoValue}]
      /\ unsynced \in [Buffers -> SUBSET Objects]
  BY DEF BufferInv, Inv, TypeOK
<1>1. CASE GpuAlloc(b)
  <2>1. PICK v \in Values : mem' = [mem EXCEPT ![b] = v] /\ want' = [want EXCEPT ![b] = v]
    BY <1>1 DEF GpuAlloc
  <2>2. UNCHANGED <<queue, unsynced, raced, stale>> /\ ~Live(b)
    BY <1>1 DEF GpuAlloc, contextVars
  <2>3. \A o \in Objects : ~Holds(queue[o], b)
    BY <2>2 DEF BufferInv, Tracked
  <2>4. /\ mem'[b] = want'[b]
        /\ \A c \in Buffers : c # b => mem'[c] = mem[c] /\ want'[c] = want[c]
    BY <1>0, <2>1
  <2>5. Tracked'
    BY <2>2, <2>3, <2>4 DEF BufferInv, Tracked, Holds, Live
  <2>6. LastCopyRight'
    BY <2>2, <2>3, <2>4 DEF BufferInv, LastCopyRight, Holds, EndsWith
  <2>7. Settled' /\ ReadsAreFresh'
    BY <2>2, <2>4 DEF BufferInv, Settled, Holds, ReadsAreFresh
  <2>8. QED
    BY <2>5, <2>6, <2>7 DEF BufferInv
<1>2. CASE GpuFree(b)
  <2>1. /\ UNCHANGED <<queue, stale>> /\ \A o \in Objects : Idle(o)
        /\ mem' = [mem EXCEPT ![b] = NoValue] /\ want' = [want EXCEPT ![b] = NoValue]
        /\ raced' = raced \ {b}
    BY <1>2 DEF GpuFree, contextVars
  <2>2. \A o \in Objects : \A c : ~Holds(queue[o], c) /\ \A v : EndsWith(queue[o], c, v)
    BY <2>1, IdleHoldsNone
  <2>3. Tracked' /\ LastCopyRight'
    BY <2>1, <2>2 DEF Tracked, LastCopyRight, Holds, EndsWith
  <2>4. \A c \in Buffers \ raced : mem[c] = want[c]
    BY <2>2 DEF BufferInv, Settled
  <2>5. Settled' /\ ReadsAreFresh'
    BY <1>0, <2>1, <2>4 DEF BufferInv, Settled, ReadsAreFresh
  <2>6. QED
    BY <2>3, <2>5 DEF BufferInv
<1>3. QED
  BY <1>1, <1>2

\* A write through the current context: queued behind its earlier ones, or done.
LEMMA CopyBuffers ==
  ASSUME BufferInv, Inv', NEW b \in Buffers, NEW v \in Values, CopyToGpu(b, v)
  PROVE  BufferInv'
<1> DEFINE w == [buf |-> b, val |-> v]
<1>0. /\ mem \in [Buffers -> Values \union {NoValue}] /\ want \in [Buffers -> Values \union {NoValue}]
      /\ unsynced \in [Buffers -> SUBSET Objects] /\ current \in Objects
      /\ queue \in [Objects -> Seq(Write)] /\ w \in Write
  BY DEF BufferInv, Inv, TypeOK, Write
<1>01. PICK q \in Seq(Write) : q = queue[current]
  BY <1>0
<1>02. /\ \A c : Holds(Append(q, w), c) <=> Holds(q, c) \/ b = c
      /\ EndsWith(Append(q, w), b, v)
      /\ \A c, x : b # c /\ EndsWith(q, c, x) => EndsWith(Append(q, w), c, x)
  <2>1. w.buf = b /\ w.val = v
    OBVIOUS
  <2>2. QED
    BY <1>0, <2>1, AppendCopy
<1>03. v # NoValue
  BY GpuAssumption DEF Values, NoValue
<1>1. /\ want'[b] = v /\ \A c \in Buffers : c # b => want'[c] = want[c]
      /\ raced' \in {raced \ {b}, raced \union {b}}
      /\ b \notin raced' => unsynced[b] \subseteq {current}
      /\ stale' = stale /\ Live(b)
  BY <1>0 DEF CopyToGpu, Wrote
<1>2. b \notin raced' => \A o \in Objects : o # current => ~Holds(queue[o], b)
  BY <1>1 DEF BufferInv, Tracked
<1>3. CASE mode[current] = "SYNC"
  <2>1. UNCHANGED <<queue, unsynced>> /\ Idle(current) /\ mem' = [mem EXCEPT ![b] = v]
    BY <1>3 DEF CopyToGpu
  <2>2. mem'[b] = v /\ \A c \in Buffers : c # b => mem'[c] = mem[c]
    BY <1>0, <2>1
  <2>3. Tracked'
    BY <1>03, <2>1, <2>2 DEF BufferInv, Tracked, Holds, Live
  <2>4. LastCopyRight'
    <3> SUFFICES ASSUME NEW c \in Buffers \ raced', NEW o \in Objects
                 PROVE  EndsWith(queue[o], c, want'[c])
      BY <2>1 DEF LastCopyRight, EndsWith
    <3>1. CASE c = b
      <4>1. ~Holds(queue[o], b)
        BY <1>2, <2>1, <3>1, IdleHoldsNone
      <4>2. QED
        BY <3>1, <4>1 DEF Holds, EndsWith
    <3>2. CASE c # b
      BY <1>1, <3>2 DEF BufferInv, LastCopyRight
    <3>3. QED
      BY <3>1, <3>2
  <2>5. Settled' /\ ReadsAreFresh'
    BY <1>1, <2>1, <2>2 DEF BufferInv, Settled, Holds, ReadsAreFresh
  <2>6. QED
    BY <2>3, <2>4, <2>5 DEF BufferInv
<1>4. CASE mode[current] # "SYNC"
  <2>1. /\ queue'[current] = Append(queue[current], w)
        /\ \A o \in Objects : o # current => queue'[o] = queue[o]
        /\ unsynced'[b] = unsynced[b] \union {current}
        /\ \A c \in Buffers : c # b => unsynced'[c] = unsynced[c]
        /\ mem' = mem
    BY <1>0, <1>4 DEF CopyToGpu
  <2>2. \A o \in Objects, c \in Buffers : c # b => (Holds(queue'[o], c) <=> Holds(queue[o], c))
    BY <1>01, <1>02, <2>1
  <2>3. Holds(queue'[current], b)
    BY <1>01, <1>02, <2>1
  <2>4. Tracked'
    <3> SUFFICES ASSUME NEW o \in Objects, NEW c \in Buffers, Holds(queue'[o], c)
                 PROVE  o \in unsynced'[c] /\ Live(c)
      BY <2>1 DEF Tracked, Holds, Live
    <3>1. CASE c = b
      BY <1>1, <2>1, <3>1 DEF BufferInv, Tracked
    <3>2. CASE c # b
      BY <2>1, <2>2, <3>2 DEF BufferInv, Tracked
    <3>3. QED
      BY <3>1, <3>2
  <2>5. LastCopyRight'
    <3> SUFFICES ASSUME NEW c \in Buffers \ raced', NEW o \in Objects
                 PROVE  EndsWith(queue'[o], c, want'[c])
      BY DEF LastCopyRight, EndsWith
    <3>1. CASE c = b /\ o = current
      BY <1>01, <1>02, <1>1, <2>1, <3>1
    <3>2. CASE c = b /\ o # current
      BY <1>2, <2>1, <3>2 DEF Holds, EndsWith
    <3>3. CASE c # b
      <4>1. EndsWith(queue[o], c, want'[c])
        BY <1>1, <3>3 DEF BufferInv, LastCopyRight
      <4>2. CASE o # current
        BY <2>1, <4>1, <4>2
      <4>3. CASE o = current
        <5>1. PICK x : x = want'[c]
          OBVIOUS
        <5>2. EndsWith(q, c, x)
          BY <1>01, <4>1, <4>3, <5>1
        <5>3. EndsWith(Append(q, w), c, x)
          BY <1>02, <3>3, <5>2
        <5>4. QED
          BY <1>01, <2>1, <4>3, <5>1, <5>3
      <4>4. QED
        BY <4>2, <4>3
    <3>4. QED
      BY <3>1, <3>2, <3>3
  <2>6. Settled'
    <3> SUFFICES ASSUME NEW c \in Buffers \ raced', \A o \in Objects : ~Holds(queue'[o], c)
                 PROVE  mem[c] = want'[c]
      BY <2>1 DEF Settled, Holds
    <3>1. c # b
      BY <1>0, <2>3
    <3>2. QED
      BY <1>1, <2>2, <3>1 DEF BufferInv, Settled
  <2>7. QED
    BY <1>1, <2>4, <2>5, <2>6 DEF BufferInv, ReadsAreFresh
<1>5. QED
  BY <1>3, <1>4

\* VectorAdd reads memory that is what the program wrote, if the program may rely on it.
LEMMA AddBuffers ==
  ASSUME BufferInv, Inv', NEW a \in Buffers, NEW b \in Buffers, NEW r \in Buffers,
         GpuVectorAddKernel(a, b, r)
  PROVE  BufferInv'
<1>0. /\ mem \in [Buffers -> Values \union {NoValue}] /\ want \in [Buffers -> Values \union {NoValue}]
      /\ mem' \in [Buffers -> Values \union {NoValue}]
      /\ unsynced \in [Buffers -> SUBSET Objects] /\ current \in Objects
  BY DEF BufferInv, Inv, TypeOK
<1>1. /\ mem' = [mem EXCEPT ![r] = (mem[a] + mem[b]) % Modulus]
      /\ raced' \in {raced \ {r}, raced \union {r}}
      /\ r \notin raced' => unsynced[r] \subseteq {current}
      /\ unsynced' = [c \in Buffers |-> unsynced[c] \ {current}]
      /\ UNCHANGED <<queue, stale>> /\ Idle(current) /\ Live(r)
  BY DEF GpuVectorAddKernel, contextVars
<1>2. /\ mem'[r] = want'[r]
      /\ \A c \in Buffers : c # r => mem'[c] = mem[c] /\ want'[c] = want[c]
  <2>1. Reliable(current, a) /\ Reliable(current, b) => want[a] + want[b] = mem[a] + mem[b]
    BY <1>1, ReliableIsSettled
  <2>2. want' = [want EXCEPT ![r] = IF Reliable(current, a) /\ Reliable(current, b)
                                    THEN (want[a] + want[b]) % Modulus ELSE mem'[r]]
    BY DEF GpuVectorAddKernel
  <2>3. QED
    BY <1>0, <1>1, <2>1, <2>2
<1>3. \A c : ~Holds(queue[current], c)
  BY <1>1, IdleHoldsNone
<1>4. r \notin raced' => \A o \in Objects : ~Holds(queue[o], r)
  BY <1>1, <1>3 DEF BufferInv, Tracked
<1>5. Live(r)'
  <2>1. mem[a] \in Int /\ mem[b] \in Int
    BY <1>0, GpuAssumption DEF Values, NoValue
  <2>2. \A x, y \in Int : (x + y) % Modulus \in Values
    BY GpuAssumption DEF Values
  <2>3. mem'[r] \in Values
    BY <1>0, <1>1, <2>1, <2>2
  <2>4. QED
    BY <2>3, GpuAssumption DEF Live, Values, NoValue
<1>6. Tracked'
  <2> SUFFICES ASSUME NEW o \in Objects, NEW c \in Buffers, Holds(queue[o], c)
               PROVE  o \in unsynced'[c] /\ Live(c)'
    BY <1>1 DEF Tracked, Holds
  <2>1. o # current /\ o \in unsynced[c] /\ Live(c)
    BY <1>3 DEF BufferInv, Tracked
  <2>2. Live(c)'
    BY <1>2, <1>5, <2>1 DEF Live
  <2>3. QED
    BY <1>1, <2>1, <2>2
<1>7. LastCopyRight'
  <2> SUFFICES ASSUME NEW c \in Buffers \ raced', NEW o \in Objects
               PROVE  EndsWith(queue[o], c, want'[c])
    BY <1>1 DEF LastCopyRight, EndsWith
  <2>1. CASE c = r
    BY <1>4, <2>1 DEF Holds, EndsWith
  <2>2. CASE c # r
    BY <1>1, <1>2, <2>2 DEF BufferInv, LastCopyRight
  <2>3. QED
    BY <2>1, <2>2
<1>8. Settled' /\ ReadsAreFresh'
  BY <1>1, <1>2 DEF BufferInv, Settled, Holds, ReadsAreFresh
<1>9. QED
  BY <1>6, <1>7, <1>8 DEF BufferInv

\* A read that the program may rely on finds what was written last.
LEMMA ReadBuffers ==
  ASSUME BufferInv, Inv', NEW b \in Buffers, CopyFromGpu(b)
  PROVE  BufferInv'
<1>1. Reliable(current, b) => mem[b] = want[b]
  BY ReliableIsSettled DEF CopyFromGpu
<1>2. UNCHANGED <<queue, mem, want, unsynced, raced, stale>>
  BY <1>1 DEF CopyFromGpu, contextVars
<1>3. QED
  BY <1>2, ForgetStep DEF BufferInv

\* In every reachable state, whichever streams are still working, memory and unfinished
\* copies together hold what the program wrote last.
THEOREM BufferInvariance == Spec => []BufferInv
<1>1. Init => Tracked /\ LastCopyRight /\ Settled /\ ReadsAreFresh
  <2> SUFFICES ASSUME Init PROVE Tracked /\ LastCopyRight /\ Settled /\ ReadsAreFresh
    OBVIOUS
  <2>1. \A o \in Objects : Idle(o)
    BY DEF Init, Idle
  <2>2. QED
    BY <2>1, IdleHoldsNone DEF Init, Tracked, LastCopyRight, Settled, ReadsAreFresh
<1>2. BufferInv /\ Inv' /\ [Next]_vars => BufferInv'
  <2> SUFFICES ASSUME BufferInv, Inv', [Next]_vars PROVE BufferInv'
    OBVIOUS
  <2>1. CASE UNCHANGED vars
    BY <2>1, ForgetStep DEF vars, contextVars, bufferVars
  <2>2. CASE Manager \/ ForcedSyncWork \/ \E o \in Objects : BadStream(o)
    BY <2>2, ManagerBuffers
  <2>3. CASE Work /\ ~ForcedSyncWork
    BY <2>3, AllocBuffers, ReadBuffers, CopyBuffers, AddBuffers DEF Work
  <2>4. CASE \E o \in Objects : StreamStep(o)
    BY <2>4, StreamBuffers
  <2>5. QED
    BY <2>1, <2>2, <2>3, <2>4 DEF Next
<1>3. Init /\ Inv => BufferInv
  BY <1>1 DEF BufferInv
<1>4. QED
  BY <1>2, <1>3, ManagerInvariant, PTL DEF Spec

\* A read returns the value the program last wrote, as long as each ASYNC write through
\* another context was followed by a call that synchronizes that context.
THEOREM ReadsStayFresh == Spec => []ReadsAreFresh
<1>1. BufferInv => ReadsAreFresh
  BY DEF BufferInv
<1>2. QED
  BY <1>1, BufferInvariance, PTL

\* The contexts, the streams and the buffers are well typed in every reachable state.
THEOREM ContextTypeCorrect == Spec => []TypeOK
<1>1. Inv => TypeOK
  BY DEF Inv
<1>2. QED
  BY <1>1, ManagerInvariant, PTL
=============================================================================
