----------------------------- MODULE ObjectFile -----------------------------
(***************************************************************************)
(* One file that carries an R object between the master and the workers:   *)
(* rcompss_serialize writes it, possibly several times (a task that is     *)
(* retried), and rcompss_unserialize may read it at any moment.  The       *)
(* writer and the reader of one object are parameters, which ObjectCodec   *)
(* models for the "cpp" format; qs and RMVL are external, and their files  *)
(* hold whole objects.                                                     *)
(***************************************************************************)
EXTENDS ObjectUnits

CONSTANTS Objs,          \* the R objects: see Vector
          Methods,       \* the spellings of the serialization method in use
          Lower,         \* Lower[m]: spelling m in lower case
          BufferSize,    \* how many units the ofstream holds back
          MaxAttempts,   \* bound: how often the file is written
          Write(_, _),   \* Write(o, v): the units version v of the writer makes of o
          Read(_, _, _), \* Read(t, v, n): the reader, at units t with n vectors protected
          Kept(_, _),    \* Kept(o, v): what version v keeps of o
          VectorsOf(_)   \* VectorsOf(o): how many vectors the reader allocates for o

\* A whole qs or RMVL file.
Foreign(m, o) == [unit |-> m, is |-> o]

ASSUME ObjectAssumption ==
  /\ Bad \notin Objs
  /\ BufferSize \in Nat /\ MaxAttempts \in Nat
  /\ \A m \in Methods :
       (m = "cpp" => Lower[m] = "cpp") /\ (m = "qs" => Lower[m] = "qs") /\ (m = "RMVL" => Lower[m] = "rmvl")

VARIABLES method,   \* the path's prefix
          tried,    \* the objects of the attempts so far
          phase,    \* "absent", "writing", "ok", "cut", "threw", "crashed"
          version,  \* the format version of the file
          rest,     \* the units that are not on disk yet
          file      \* the units on disk

vars == <<method, tried, phase, version, rest, file>>

-----------------------------------------------------------------------------
(***************************************************************************)
(* The whole "cpp" file: magic number, version and the object.             *)
(***************************************************************************)
Unsupported(t) == \E i \in DOMAIN t : t[i] = Throws

Encoded(o, v) == <<I32(kMagic), I32(v)>> \o Write(o, v)

\* unserializeSEXP; units after the object are not looked at.
Decoded(t) ==
  IF ~HasUnit(t, "i") \/ ~HasUnit(Tail(t), "i") THEN Bad
  ELSE IF t[1].is # kMagic \/ t[2].is \notin kMinReadVersion..kVersion THEN Bad
  ELSE Read(SubSeq(t, 3, Len(t)), t[2].is, 0)

\* rcompss_unserialize: what it may give. The reader is chosen by the exact spelling in
\* the path, and the "cpp" one is tried for a spelling it does not know. RMVL looks for
\* one of the objects in the file; it may refuse a file with a broken one.
Unserialize ==
  IF method \in {"qs", "RMVL"}
  THEN LET copies == {i \in DOMAIN file : file[i].unit = Lower[method]}
           whole == {i \in copies : file[i].is # Bad}
       IN {Good(file[i].is, <<>>, 0) : i \in whole}
            \union (IF whole = {} \/ whole # DOMAIN file THEN {Bad} ELSE {})
  ELSE {Decoded(file)}

-----------------------------------------------------------------------------
(***************************************************************************)
(* Writing the file.                                                       *)
(***************************************************************************)
\* A new path, or a "cpp" file that an earlier version of the package wrote.
Init ==
  /\ method \in Methods
  /\ rest = <<>>
  /\ \/ tried = <<>> /\ phase = "absent" /\ version = kVersion /\ file = <<>>
     \/ \E o \in Objs, v \in kMinReadVersion..(kVersion - 1) :
          /\ method = "cpp"
          /\ ~Unsupported(Encoded(o, v))
          /\ tried = <<o>> /\ phase = "ok" /\ version = v /\ file = Encoded(o, v)

\* Mutant: the file is opened for appending.
SerializeAppending(o) ==
  /\ phase # "writing" /\ Len(tried) < MaxAttempts
  /\ tried' = Append(tried, o)
  /\ version' = kVersion
  /\ Lower[method] = "cpp"
  /\ phase' = "writing" /\ rest' = Encoded(o, kVersion)
  /\ UNCHANGED <<method, file>>

\* Mutant: the writer announces a version the reader does not know.
SerializeNewer(o) ==
  /\ phase # "writing" /\ Len(tried) < MaxAttempts
  /\ tried' = Append(tried, o)
  /\ version' = kVersion + 1
  /\ Lower[method] = "cpp"
  /\ phase' = "writing" /\ file' = <<>> /\ rest' = Encoded(o, kVersion + 1)
  /\ UNCHANGED method

\* rcompss_serialize begins: the writer is chosen by the spelling in lower case; the
\* "cpp" one truncates the file or cannot open it, the others write it or throw. RMVL
\* appends, and is tried a second time after an exception.
Serialize(o) ==
  /\ phase # "writing" /\ Len(tried) < MaxAttempts
  /\ tried' = Append(tried, o)
  /\ \/ /\ Lower[method] = "cpp"
        /\ phase' = "writing" /\ file' = <<>> /\ rest' = Encoded(o, kVersion)
        /\ version' = kVersion
     \/ /\ Lower[method] = "qs"
        /\ \/ phase' = "ok" /\ file' = <<Foreign("qs", o)>>
           \/ phase' = "threw" /\ file' = <<Foreign("qs", Bad)>>
        /\ UNCHANGED <<rest, version>>
     \/ /\ Lower[method] = "rmvl"
        /\ \E first \in {<<>>, <<Foreign("rmvl", Bad)>>, <<Foreign("rmvl", o)>>} :
             \/ phase' = "ok" /\ file' = file \o first \o <<Foreign("rmvl", o)>>
             \/ phase' = "threw" /\ file' = file \o first \o <<Foreign("rmvl", Bad)>>
        /\ UNCHANGED <<rest, version>>
     \/ phase' = "threw" /\ UNCHANGED <<file, rest, version>>
  /\ UNCHANGED method

\* How much of rest the writer produces before it throws or is done.
Producible == IF Unsupported(rest) THEN SelectInSeq(rest, LAMBDA u : u = Throws) - 1 ELSE Len(rest)

\* The ofstream passes some units on.
Flush ==
  /\ phase = "writing"
  /\ \E k \in 1..Producible :
       file' = file \o SubSeq(rest, 1, k) /\ rest' = SubSeq(rest, k + 1, Len(rest))
  /\ UNCHANGED <<method, tried, phase, version>>

\* An unsupported type or a failed write: what is in the buffer may still reach the disk.
WriteThrows ==
  /\ phase = "writing"
  /\ \E k \in 0..Producible : file' = file \o SubSeq(rest, 1, k)
  /\ rest' = <<>> /\ phase' = "threw"
  /\ UNCHANGED <<method, tried, version>>

\* serializeSEXP returns; nobody looks whether the last flush, made by the destructor,
\* reaches the disk.
Close ==
  /\ phase = "writing"
  /\ ~Unsupported(rest)
  /\ Len(rest) <= BufferSize
  /\ \/ file' = file \o rest /\ phase' = "ok"
     \/ \E k \in 0..(Len(rest) - 1) : file' = file \o SubSeq(rest, 1, k) /\ phase' = "cut"
  /\ rest' = <<>>
  /\ UNCHANGED <<method, tried, version>>

Crash ==
  /\ phase = "writing"
  /\ rest' = <<>> /\ phase' = "crashed"
  /\ UNCHANGED <<method, tried, version, file>>

Next == (\E o \in Objs : Serialize(o)) \/ Flush \/ WriteThrows \/ Close \/ Crash

Spec == Init /\ [][Next]_vars

-----------------------------------------------------------------------------
(***************************************************************************)
(* Correctness.                                                            *)
(***************************************************************************)
TypeOK ==
  /\ method \in Methods
  /\ \A i \in DOMAIN tried : tried[i] \in Objs
  /\ phase \in {"absent", "writing", "ok", "cut", "threw", "crashed"}
  /\ version \in kMinReadVersion..kVersion
  /\ ~Unsupported(file)

Expected(o) == IF Lower[method] = "cpp" THEN Kept(o, version) ELSE o

\* The writer and the reader of one object fit: the reader gives what the writer's version
\* keeps, unless R's protection stack is full, and refuses every proper prefix.
CodecFits(o, v) ==
  LET units == Write(o, v)
      got == Read(units, v, 0)
  IN /\ Len(units) \in Nat /\ units = [i \in 1..Len(units) |-> units[i]]
     /\ ~Unsupported(units) =>
          /\ got.ok => got.val = Kept(o, v)
          /\ VectorsOf(o) < ProtectLimit => got.ok
     /\ \A k \in 0..(Len(units) - 1) : ~Read(SubSeq(units, 1, k), v, 0).ok

CodecIsSound == \A o \in Objs, v \in kMinReadVersion..kVersion : CodecFits(o, v)

\* An object written by this version of the package, or by an earlier one, is read back
\* whole, and no part of its file passes for a smaller object.
CodecFitsFile == \A i \in DOMAIN tried : CodecFits(tried[i], version)

\* Whatever moment a file is read at, after whatever crashes, full disks and retries, the
\* reader throws or gives one of the objects that were serialized to it: a truncated file
\* never passes for a smaller object, nor the remains of two attempts for a third one.
WholeOrNothing ==
  \A got \in Unserialize : got.ok => \E i \in DOMAIN tried : got.val = Expected(tried[i])

\* A file whose serialization returned, with all of it on disk, reads back as the object
\* that was serialized last, provided R's protection stack has room for its vectors and
\* whatever RMVL appended to, in earlier attempts, is the same object.
WrittenIsReadable ==
  LET readable == /\ Lower[method] = "cpp" => VectorsOf(Last(tried)) < ProtectLimit
                  /\ Lower[method] = "rmvl" => \A i \in DOMAIN file : file[i].is = Last(tried)
  IN phase = "ok" /\ readable =>
       \A got \in Unserialize : got.ok /\ got.val = Expected(Last(tried))

\* Files of versions 1 and 2 are read back with what their writers stored.
LegacyIsReadable ==
  version < kVersion /\ VectorsOf(tried[1]) < ProtectLimit
    => \A got \in Unserialize : got.ok /\ got.val = Kept(tried[1], version)
=============================================================================
