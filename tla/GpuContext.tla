----------------------------- MODULE GpuContext -----------------------------
(***************************************************************************)
(* The GPU contexts of one R process: the ContextManager singleton with    *)
(* its named RunContexts and its current context, and the device buffers   *)
(* that R allocates, fills, adds and reads through the current context.    *)
(*                                                                         *)
(* A RunContext placed on the GPU owns a CUDA stream.  The device works    *)
(* off each stream in order and the streams independently (StreamStep,     *)
(* external); a call that synchronizes is one that is not taken before the *)
(* stream is idle.                                                         *)
(*                                                                         *)
(* The last four variables are history: what the sequence of calls         *)
(* entitles the R program to expect of a buffer.                           *)
(***************************************************************************)
EXTENDS Integers, Sequences, FiniteSets

CONSTANTS Names,       \* the context names the program uses
          MaxObjects,  \* bound: RunContext objects ever created
          Buffers,     \* the GpuBufferHandles the program holds
          Modulus,     \* the contents of a buffer are numbers modulo Modulus
          MaxPending   \* bound: unfinished copies in one stream

Default == "default"
Objects == 1..MaxObjects
Values == 0..(Modulus - 1)
NoValue == -1          \* no memory behind the handle

ASSUME GpuAssumption ==
  /\ Default \in Names
  /\ MaxObjects \in Nat \ {0}
  /\ Modulus \in Nat \ {0}
  /\ MaxPending \in Nat

VARIABLES
  up,         \* the singleton exists
  contexts,   \* mContexts: name -> object
  current,    \* mpCurrentContext
  created,    \* how many RunContexts have been constructed
  alive,      \* those that have not been deleted
  placement,  \* placement[o]: mOperationPlacement
  mode,       \* mode[o]: mRunMode
  stream,     \* the contexts whose mCudaStream is valid
  queue,      \* queue[o]: the unfinished copies of o's stream
  mem,        \* mem[b]: device memory of buffer b
  want,       \* want[b]: what the calls so far wrote to b
  unsynced,   \* unsynced[b]: contexts with an asynchronous write to b and no sync since
  raced,      \* buffers written through two contexts with no sync in between
  stale       \* buffers of which a read gave another value than it had to

managerVars == <<up, contexts, current, created, alive>>
contextVars == <<placement, mode, stream, queue>>
bufferVars == <<mem, want, unsynced, raced, stale>>
vars == <<managerVars, contextVars, bufferVars>>

Idle(o) == queue[o] = <<>>
Mapped == {contexts[n] : n \in DOMAIN contexts}

\* Wherever work can be waited for: a GPU context with a valid stream.
Usable(o) == placement[o] = "GPU" /\ o \in stream

\* The state after the first GetInstance().
Init ==
  /\ up = TRUE
  /\ contexts = [n \in {Default} |-> 1]
  /\ current = 1
  /\ created = 1
  /\ alive = {1}
  /\ placement = [o \in Objects |-> "CPU"]
  /\ mode = [o \in Objects |-> "SYNC"]
  /\ stream = {}
  /\ queue = [o \in Objects |-> <<>>]
  /\ mem = [b \in Buffers |-> NoValue]
  /\ want = [b \in Buffers |-> NoValue]
  /\ unsynced = [b \in Buffers |-> {}]
  /\ raced = {}
  /\ stale = {}

-----------------------------------------------------------------------------
(***************************************************************************)
(* RunContext                                                              *)
(***************************************************************************)
\* Sync() on the contexts in S: throws for a GPU context without a valid stream.
Sync(S) ==
  /\ \A o \in S : placement[o] = "GPU" => o \in stream /\ Idle(o)
  /\ unsynced' = [b \in Buffers |-> unsynced[b] \ S]

\* Mutant: the stream is replaced while it is still working.
PlaceWithoutSync(o, p) ==
  /\ unsynced' = [b \in Buffers |-> unsynced[b] \ {o}]
  /\ placement' = [placement EXCEPT ![o] = p]
  /\ stream' = IF p = "GPU" THEN stream \union {o} ELSE stream \ {o}
  /\ UNCHANGED <<mode, queue>>

\* SetOperationPlacement: GPU to GPU only waits; otherwise the old stream is waited
\* for and destroyed, and for the GPU a new one is made. When that fails the placement
\* has been changed already, the stream is gone, and every later Sync() throws.
Place(o, p) ==
  /\ Sync({o})
  /\ IF placement[o] = "GPU" /\ p = "GPU"
     THEN UNCHANGED <<placement, stream>>
     ELSE /\ placement' = [placement EXCEPT ![o] = p]
          /\ stream' \in IF p = "GPU" THEN {stream \union {o}, stream \ {o}} ELSE {stream \ {o}}
  /\ UNCHANGED <<mode, queue>>

\* Mutant: only the flag changes.
ModeWithoutSync(o, m) ==
  /\ mode' = [mode EXCEPT ![o] = m]
  /\ unsynced' = IF m = "SYNC" THEN [b \in Buffers |-> unsynced[b] \ {o}] ELSE unsynced
  /\ UNCHANGED <<placement, stream, queue>>

\* SetRunMode: leaving ASYNC waits.
Mode(o, m) ==
  /\ IF mode[o] = "ASYNC" /\ m = "SYNC" THEN Sync({o}) ELSE UNCHANGED unsynced
  /\ mode' = [mode EXCEPT ![o] = m]
  /\ UNCHANGED <<placement, stream, queue>>

\* A CUDA call with the stream that could not be made returns an error, or ends the
\* process; so does DestroyInstance, whose SyncAll throws.
BadStream(o) ==
  /\ up /\ o \in Mapped \union {current}
  /\ placement[o] = "GPU" /\ o \notin stream
  /\ up' = FALSE
  /\ UNCHANGED <<contexts, current, created, alive, contextVars, bufferVars>>

-----------------------------------------------------------------------------
(***************************************************************************)
(* ContextManager, as the R wrappers call it.  A name that is not in the   *)
(* map is an error that changes nothing.                                   *)
(***************************************************************************)
SetOperationPlacement(n, p) ==
  /\ up /\ n \in DOMAIN contexts
  /\ Place(contexts[n], p)
  /\ UNCHANGED <<managerVars, mem, want, raced, stale>>

SetRunMode(n, m) ==
  /\ up /\ n \in DOMAIN contexts
  /\ Mode(contexts[n], m)
  /\ UNCHANGED <<managerVars, mem, want, raced, stale>>

\* Also FinalizeRunContext: the work buffers it would free are never allocated.
SyncContext(n) ==
  /\ up /\ n \in DOMAIN contexts
  /\ Sync({contexts[n]})
  /\ UNCHANGED <<managerVars, contextVars, mem, want, raced, stale>>

SyncAll ==
  /\ up
  /\ Sync(Mapped)
  /\ UNCHANGED <<managerVars, contextVars, mem, want, raced, stale>>

\* The loop comes to a context without a valid stream and throws; the contexts S that the
\* unordered map has before it are synchronized, the others are not.
SyncAllThrows ==
  /\ up
  /\ \E o \in Mapped : placement[o] = "GPU" /\ o \notin stream
  /\ \E S \in SUBSET Mapped : Sync(S)
  /\ UNCHANGED <<managerVars, contextVars, mem, want, raced, stale>>

\* The name of an existing context is taken over; the old object is not deleted.
CreateRunContext(n) ==
  /\ up /\ created < MaxObjects
  /\ created' = created + 1
  /\ alive' = alive \union {created'}
  /\ contexts' = [m \in DOMAIN contexts \union {n} |-> IF m = n THEN created' ELSE contexts[m]]
  /\ UNCHANGED <<up, current, contextVars, bufferVars>>

\* Mutant: GetContext does not look whether the name is there: operator[] of the map
\* inserts it with a null pointer (0), which becomes the current context.
SelectUnknown(n) ==
  /\ up
  /\ contexts' = [m \in DOMAIN contexts \union {n} |-> IF m \in DOMAIN contexts THEN contexts[m] ELSE 0]
  /\ current' = contexts'[n]
  /\ UNCHANGED <<up, created, alive, contextVars, bufferVars>>

\* GetContext finds the name; the context it names becomes the current one.
SetOperationContext(n) ==
  /\ up /\ n \in DOMAIN contexts
  /\ current' = contexts[n]
  /\ UNCHANGED <<up, contexts, created, alive, contextVars, bufferVars>>

\* ~RunContext waits for the stream before it destroys it; a Sync() that throws is
\* ignored.
Destroy(S) ==
  /\ \A o \in S : Usable(o) => Idle(o)
  /\ unsynced' = [b \in Buffers |-> unsynced[b] \ S]
  /\ alive' = alive \ S
  /\ stream' = stream \ S
  /\ UNCHANGED <<placement, mode, queue>>

\* Mutant: the current context is not looked at.
DeleteAny(n) ==
  /\ up /\ n \in DOMAIN contexts
  /\ contexts' = [m \in DOMAIN contexts \ {n} |-> contexts[m]]
  /\ Destroy({contexts[n]})
  /\ UNCHANGED <<up, current, created, mem, want, raced, stale>>

\* Mutant: the name stays in the map.
DeleteKeepsName(n) ==
  /\ up /\ n \in DOMAIN contexts /\ n # Default
  /\ IF current = contexts[n]
     THEN Default \in DOMAIN contexts /\ current' = contexts[Default]
     ELSE UNCHANGED current
  /\ Destroy({contexts[n]})
  /\ UNCHANGED <<up, contexts, created, mem, want, raced, stale>>

\* A current context hands over to "default"; when that is the one to be deleted, or
\* is gone, the call changes nothing.
DeleteRunContext(n) ==
  /\ up /\ n \in DOMAIN contexts
  /\ IF current = contexts[n]
     THEN n # Default /\ Default \in DOMAIN contexts /\ current' = contexts[Default]
     ELSE UNCHANGED current
  /\ contexts' = [m \in DOMAIN contexts \ {n} |-> contexts[m]]
  /\ Destroy({contexts[n]})
  /\ UNCHANGED <<up, created, mem, want, raced, stale>>

\* The executor's last step.
DestroyInstance ==
  /\ up
  /\ up' = FALSE
  /\ contexts' = [n \in {} |-> 1]
  /\ Sync(Mapped) /\ Destroy(Mapped)
  /\ UNCHANGED <<current, created, mem, want, raced, stale>>

-----------------------------------------------------------------------------
(***************************************************************************)
(* Buffers and the work on them, through the current context.              *)
(***************************************************************************)
Live(b) == mem[b] # NoValue

\* The device finishes the oldest copy of a stream (external).
StreamStep(o) ==
  /\ ~Idle(o)
  /\ mem' = [mem EXCEPT ![Head(queue[o]).buf] = Head(queue[o]).val]
  /\ queue' = [queue EXCEPT ![o] = Tail(@)]
  /\ UNCHANGED <<managerVars, placement, mode, stream, want, unsynced, raced, stale>>

\* Allocation uses no stream: only the placement is looked at. New device memory has any
\* contents.
GpuAlloc(b) ==
  /\ up /\ placement[current] = "GPU" /\ ~Live(b)
  /\ \E v \in Values : mem' = [mem EXCEPT ![b] = v] /\ want' = [want EXCEPT ![b] = v]
  /\ UNCHANGED <<managerVars, contextVars, unsynced, raced, stale>>

\* cudaFree waits for the device (external). A second free finds a cleared handle.
GpuFree(b) ==
  /\ up /\ Live(b)
  /\ \A o \in Objects : Idle(o)
  /\ mem' = [mem EXCEPT ![b] = NoValue]
  /\ want' = [want EXCEPT ![b] = NoValue]
  /\ unsynced' = [unsynced EXCEPT ![b] = {}]
  /\ raced' = raced \ {b}
  /\ UNCHANGED <<managerVars, contextVars, stale>>

\* What a write of v to b through context o makes the program expect.
Wrote(o, b, v) ==
  /\ want' = [want EXCEPT ![b] = v]
  /\ raced' = IF unsynced[b] \ {o} = {} THEN raced \ {b} ELSE raced \union {b}

\* Mutant: the copy is waited for in neither mode.
CopyNeverWaits(b, v) ==
  /\ up /\ Usable(current) /\ Live(b)
  /\ Wrote(current, b, v)
  /\ Len(queue[current]) < MaxPending
  /\ queue' = [queue EXCEPT ![current] = Append(@, [buf |-> b, val |-> v])]
  /\ unsynced' = IF mode[current] = "SYNC" THEN unsynced ELSE [unsynced EXCEPT ![b] = @ \union {current}]
  /\ UNCHANGED <<managerVars, placement, mode, stream, mem, stale>>

\* cudaMemcpyAsync takes the values from the R vector before it returns; in SYNC mode
\* the stream is waited for.
CopyToGpu(b, v) ==
  /\ up /\ Usable(current) /\ Live(b)
  /\ Wrote(current, b, v)
  /\ IF mode[current] = "SYNC"
     THEN /\ Idle(current)
          /\ mem' = [mem EXCEPT ![b] = v]
          /\ UNCHANGED <<queue, unsynced>>
     ELSE /\ Len(queue[current]) < MaxPending
          /\ queue' = [queue EXCEPT ![current] = Append(@, [buf |-> b, val |-> v])]
          /\ unsynced' = [unsynced EXCEPT ![b] = @ \union {current}]
          /\ UNCHANGED mem
  /\ UNCHANGED <<managerVars, placement, mode, stream, stale>>

\* The program may rely on b when every write to it went through context o or has been
\* followed by a sync.
Reliable(o, b) == unsynced[b] \subseteq {o} /\ b \notin raced

\* The copy back follows the stream's earlier work and returns when it is complete: R
\* memory is pageable.
CopyFromGpu(b) ==
  /\ up /\ Usable(current) /\ Live(b)
  /\ Idle(current)
  /\ stale' = IF Reliable(current, b) /\ mem[b] # want[b] THEN stale \union {b} ELSE stale
  /\ UNCHANGED <<managerVars, contextVars, mem, want, unsynced, raced>>

\* VectorAdd waits for its stream in both modes.
GpuVectorAddKernel(a, b, r) ==
  /\ up /\ Usable(current) /\ Live(a) /\ Live(b) /\ Live(r)
  /\ Idle(current)
  /\ mem' = [mem EXCEPT ![r] = (mem[a] + mem[b]) % Modulus]
  /\ want' = [want EXCEPT ![r] = IF Reliable(current, a) /\ Reliable(current, b)
                                 THEN (want[a] + want[b]) % Modulus ELSE mem'[r]]
  /\ raced' = IF unsynced[r] \ {current} = {} THEN raced \ {r} ELSE raced \union {r}
  /\ unsynced' = [c \in Buffers |-> unsynced[c] \ {current}]
  /\ UNCHANGED <<managerVars, contextVars, stale>>

\* rcompss_gpu_vector_add and rcompss_gpu_memory_roundtrip_double: the current context
\* is left in SYNC mode; their buffers are their own, and freeing them waits for the
\* device unless an error comes first.
ForcedSyncWork ==
  /\ up /\ Usable(current)
  /\ Mode(current, "SYNC")
  /\ UNCHANGED <<managerVars, mem, want, raced, stale>>

-----------------------------------------------------------------------------
Manager ==
  \/ \E n \in Names :
       \/ \E p \in {"CPU", "GPU"} : SetOperationPlacement(n, p)
       \/ \E m \in {"SYNC", "ASYNC"} : SetRunMode(n, m)
       \/ SyncContext(n) \/ CreateRunContext(n) \/ SetOperationContext(n) \/ DeleteRunContext(n)
  \/ SyncAll \/ SyncAllThrows \/ DestroyInstance

Work ==
  \/ \E b \in Buffers :
       \/ GpuAlloc(b) \/ GpuFree(b) \/ CopyFromGpu(b)
       \/ \E v \in Values : CopyToGpu(b, v)
  \/ \E a, b, r \in Buffers : GpuVectorAddKernel(a, b, r)
  \/ ForcedSyncWork

Next == Manager \/ Work \/ \E o \in Objects : BadStream(o) \/ StreamStep(o)

Spec == Init /\ [][Next]_vars

-----------------------------------------------------------------------------
(***************************************************************************)
(* Correctness.                                                            *)
(***************************************************************************)
Write == [buf : Buffers, val : Values]

TypeOK ==
  /\ up \in BOOLEAN
  /\ DOMAIN contexts \subseteq Names
  /\ \A n \in DOMAIN contexts : contexts[n] \in Objects
  /\ current \in Objects
  /\ created \in Objects
  /\ alive \subseteq 1..created
  /\ placement \in [Objects -> {"CPU", "GPU"}]
  /\ mode \in [Objects -> {"SYNC", "ASYNC"}]
  /\ stream \subseteq Objects
  /\ queue \in [Objects -> Seq(Write)]
  /\ mem \in [Buffers -> Values \union {NoValue}]
  /\ want \in [Buffers -> Values \union {NoValue}]
  /\ unsynced \in [Buffers -> SUBSET Objects]
  /\ raced \subseteq Buffers
  /\ stale \subseteq Buffers

\* mpCurrentContext never dangles: no sequence of create, overwrite, select and delete
\* calls leaves it pointing to a deleted RunContext.
CurrentIsAlive == up => current \in alive

\* The map never names a deleted object, nor one object twice: a delete through one
\* name cannot free what another name still refers to.
MapIsSound ==
  /\ Mapped \subseteq alive
  /\ \A m, n \in DOMAIN contexts : contexts[m] = contexts[n] => m = n

\* Work is in flight only in a context that is alive, on the GPU and in ASYNC mode:
\* deleting a context, moving it to the CPU and returning it to SYNC all wait first.
WorkIsContained ==
  \A o \in Objects : ~Idle(o) => o \in alive /\ o \in stream /\ placement[o] = "GPU" /\ mode[o] = "ASYNC"

\* A read gives the value the program last wrote, whatever contexts the writes went
\* through, as long as each ASYNC write through another context was followed by one of
\* the calls that synchronize that context.
ReadsAreFresh == stale = {}

\* Violated: SyncAll walks the map, and a context whose name was taken over by
\* CreateRunContext is not in it although it may be the current one.
SyncAllIsComplete == [][SyncAll => \A o \in alive : Idle(o)]_vars
=============================================================================
