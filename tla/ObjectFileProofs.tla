-------------------------- MODULE ObjectFileProofs --------------------------
(***************************************************************************)
(* The object file for every set of objects, spelling and schedule of      *)
(* flushes, failures, crashes and retries: what a reader may find in it.   *)
(* The writer and the reader of one object are only known to fit.          *)
(***************************************************************************)
EXTENDS ObjectFile, FiniteSetsExt, SequenceTheorems, WellFoundedInduction, TLAPS

-----------------------------------------------------------------------------
(***************************************************************************)
(* Pieces of sequences.                                                    *)
(***************************************************************************)
\* The first k elements of a sequence.
LEMMA Piece ==
  ASSUME NEW S, NEW e \in Seq(S), NEW k \in 0..Len(e)
  PROVE  /\ SubSeq(e, 1, k) \in Seq(S) /\ Len(SubSeq(e, 1, k)) = k
         /\ DOMAIN SubSeq(e, 1, k) = 1..k
         /\ \A i \in 1..k : SubSeq(e, 1, k)[i] = e[i]
         /\ k = Len(e) => SubSeq(e, 1, k) = e
  OBVIOUS

\* What is left after k elements.
LEMMA Remainder ==
  ASSUME NEW S, NEW e \in Seq(S), NEW k \in 0..Len(e)
  PROVE  /\ SubSeq(e, k + 1, Len(e)) \in Seq(S) /\ Len(SubSeq(e, k + 1, Len(e))) = Len(e) - k
         /\ \A i \in 1..(Len(e) - k) : SubSeq(e, k + 1, Len(e))[i] = e[k + i]
  OBVIOUS

\* f and r are what comes before and after a place in e.
Split(e, k, f, r) == k \in 0..Len(e) /\ f = SubSeq(e, 1, k) /\ r = SubSeq(e, k + 1, Len(e))

\* What comes before and after a later place.
LEMMA Resumed ==
  ASSUME NEW S, NEW e \in Seq(S), NEW k, NEW f, NEW r, Split(e, k, f, r), NEW j \in 0..Len(r)
  PROVE  /\ Len(r) = Len(e) - k
         /\ Split(e, k + j, f \o SubSeq(r, 1, j), SubSeq(r, j + 1, Len(r)))
<1>0. k \in 0..Len(e) /\ f = SubSeq(e, 1, k) /\ r = SubSeq(e, k + 1, Len(e))
  BY Zenon DEF Split
<1>1. r \in Seq(S) /\ Len(r) = Len(e) - k /\ \A i \in 1..Len(r) : r[i] = e[k + i]
  BY <1>0, Remainder
<1>2. k + j \in 0..Len(e)
  BY <1>0, <1>1
<1>3. f \o SubSeq(r, 1, j) = SubSeq(e, 1, k + j)
  <2> DEFINE p == SubSeq(r, 1, j)
             q == SubSeq(e, 1, k + j)
  <2>1. p \in Seq(S) /\ Len(p) = j /\ \A i \in 1..j : p[i] = e[k + i]
    BY <1>1
  <2>2. f \in Seq(S) /\ Len(f) = k /\ \A i \in 1..k : f[i] = e[i]
    BY <1>0, Piece
  <2>3. q \in Seq(S) /\ Len(q) = k + j /\ \A i \in 1..(k + j) : q[i] = e[i]
    BY <1>2
  <2> HIDE DEF p, q
  <2>4. /\ f \o p \in Seq(S) /\ Len(f \o p) = Len(f) + Len(p)
        /\ \A i \in 1..(Len(f) + Len(p)) : (f \o p)[i] = IF i <= Len(f) THEN f[i] ELSE p[i - Len(f)]
    BY <2>1, <2>2, ConcatProperties
  <2>5. Len(f \o p) = k + j /\ \A i \in 1..(k + j) : (f \o p)[i] = e[i]
    <3>1. k \in Nat /\ j \in Nat
      BY <1>0, <1>1
    <3>2. \A i \in 1..(k + j) : (f \o p)[i] = IF i <= k THEN f[i] ELSE p[i - k]
      BY <2>1, <2>2, <2>4
    <3>3. \A i \in 1..(k + j) : ~(i <= k) => i - k \in 1..j /\ k + (i - k) = i
      BY <3>1
    <3>4. \A i \in 1..(k + j) : i <= k => i \in 1..k
      BY <3>1
    <3>5. ASSUME NEW i \in 1..(k + j)
          PROVE  (f \o p)[i] = e[i]
      <4>1. CASE i <= k
        BY Zenon, <2>2, <3>2, <3>4, <4>1
      <4>2. CASE ~(i <= k)
        <5>1. (f \o p)[i] = p[i - k]
          BY Zenon, <3>2, <4>2
        <5>2. p[i - k] = e[k + (i - k)]
          BY Zenon, <2>1, <3>3, <4>2
        <5>3. QED
          BY Zenon, <3>3, <4>2, <5>1, <5>2
      <4>3. QED
        BY Zenon, <4>1, <4>2
    <3>6. Len(f \o p) = k + j
      BY Zenon, <2>1, <2>2, <2>4
    <3>7. QED
      BY Zenon, <3>5, <3>6
  <2>6. f \o p = q
    <3> DEFINE c == f \o p
    <3>1. c \in Seq(S) /\ Len(c) = Len(q) /\ \A i \in 1..Len(c) : c[i] = q[i]
      BY <2>3, <2>4, <2>5
    <3> HIDE DEF c
    <3>2. c = q
      BY <2>3, <3>1, SeqEqual
    <3>3. QED
      BY <3>2 DEF c
  <2>7. QED
    BY <2>6 DEF p, q
<1>4. SubSeq(r, j + 1, Len(r)) = SubSeq(e, k + j + 1, Len(e))
  <2> DEFINE p == SubSeq(r, j + 1, Len(r))
             q == SubSeq(e, k + j + 1, Len(e))
             m == Len(e) - k - j
  <2>1. m \in Nat /\ Len(r) - j = m
    BY <1>1, <1>2
  <2>2. p \in Seq(S) /\ Len(p) = m /\ \A i \in 1..m : p[i] = r[j + i]
    BY <1>1, <2>1
  <2>3. q \in Seq(S) /\ Len(q) = m /\ \A i \in 1..m : q[i] = e[k + j + i]
    <3>1. PICK a : a = k + j /\ a \in 0..Len(e)
      BY <1>2
    <3> DEFINE w == SubSeq(e, a + 1, Len(e))
    <3>2. w \in Seq(S) /\ Len(w) = Len(e) - a /\ \A i \in 1..(Len(e) - a) : w[i] = e[a + i]
      BY <3>1, Remainder
    <3>3. q = w /\ m = Len(e) - a
      <4>1. q = w
        BY Zenon, <3>1
      <4>2. k \in Nat /\ j \in Nat /\ Len(e) \in Nat
        BY <1>0, <1>1
      <4>3. m = Len(e) - a
        BY <3>1, <4>2
      <4>4. QED
        BY Zenon, <4>1, <4>3
    <3> HIDE DEF q, w
    <3>4. QED
      BY <3>1, <3>2, <3>3
  <2>4. \A i \in 1..m : r[j + i] = e[k + j + i]
    BY <1>0, <1>1, <2>1
  <2> HIDE DEF p, q, m
  <2>5. \A i \in 1..m : p[i] = q[i]
    BY <2>2, <2>3, <2>4
  <2>6. p = q
    <3>1. Len(p) = Len(q) /\ \A i \in 1..Len(p) : p[i] = q[i]
      BY <2>2, <2>3, <2>5
    <3>2. QED
      BY <2>2, <2>3, <3>1, SeqEqual
  <2>7. QED
    BY <2>6 DEF p, q
<1>5. QED
  BY Zenon, <1>1, <1>2, <1>3, <1>4 DEF Split

-----------------------------------------------------------------------------
(***************************************************************************)
(* Reading a part of a "cpp" file.                                         *)
(***************************************************************************)
\* A file is the header and the units of the object.
LEMMA EncodedShape ==
  ASSUME NEW o, NEW v, CodecFits(o, v)
  PROVE  \E S : /\ Write(o, v) \in Seq(S) /\ Encoded(o, v) \in Seq(S)
                /\ Len(Encoded(o, v)) = Len(Write(o, v)) + 2
                /\ Encoded(o, v)[1] = I32(kMagic) /\ Encoded(o, v)[2] = I32(v)
                /\ \A i \in 1..Len(Write(o, v)) : Encoded(o, v)[i + 2] = Write(o, v)[i]
<1> DEFINE w == Write(o, v)
           m == Len(w)
           h == <<I32(kMagic), I32(v)>>
           S == {w[i] : i \in 1..m} \union {I32(kMagic), I32(v)}
<1>1. m \in Nat /\ w = [i \in 1..m |-> w[i]]
  BY Zenon DEF CodecFits
<1>2. \A i \in 1..m : w[i] \in S
  BY Zenon
<1>3. h \in Seq(S) /\ Len(h) = 2 /\ h[1] = I32(kMagic) /\ h[2] = I32(v)
  OBVIOUS
<1>4. Encoded(o, v) = h \o w
  BY DEF Encoded
<1> HIDE DEF w, S, h
<1>5. w \in Seq(S)
  <2>1. [i \in 1..m |-> w[i]] \in [1..m -> S]
    BY Zenon, <1>2
  <2>2. w \in [1..m -> S]
    BY Zenon, <1>1, <2>1
  <2>3. QED
    BY <1>1, <2>2
<1>6. /\ h \o w \in Seq(S) /\ Len(h \o w) = 2 + m
      /\ \A i \in 1..(2 + m) : (h \o w)[i] = IF i <= 2 THEN h[i] ELSE w[i - 2]
  <2>1. /\ h \o w \in Seq(S) /\ Len(h \o w) = Len(h) + Len(w)
        /\ \A i \in 1..(Len(h) + Len(w)) : (h \o w)[i] = IF i <= Len(h) THEN h[i] ELSE w[i - Len(h)]
    BY Zenon, <1>3, <1>5, ConcatProperties
  <2>2. QED
    BY Zenon, <1>3, <2>1
<1>7. /\ (h \o w)[1] = h[1] /\ (h \o w)[2] = h[2]
      /\ \A i \in 1..m : (h \o w)[i + 2] = w[i]
  <2>1. 1 \in 1..(2 + m) /\ 2 \in 1..(2 + m)
    BY <1>1
  <2>2. \A i \in 1..m : i + 2 \in 1..(2 + m) /\ ~(i + 2 <= 2) /\ (i + 2) - 2 = i
    BY <1>1
  <2>3. \A i \in 1..m : (h \o w)[i + 2] = w[(i + 2) - 2]
    BY Zenon, <1>6, <2>2
  <2>4. \A i \in 1..m : (h \o w)[i + 2] = w[i]
    BY Zenon, <2>2, <2>3
  <2>5. QED
    BY <1>6, <2>1, <2>4
<1>8. Len(h \o w) = m + 2
  BY <1>1, <1>6
<1>9. QED
  BY Zenon, <1>3, <1>4, <1>5, <1>6, <1>7, <1>8 DEF w

\* The head and the tail of a sequence.
LEMMA HeadTail ==
  ASSUME NEW S, NEW t \in Seq(S), Len(t) > 0
  PROVE  /\ t # <<>> /\ Head(t) = t[1] /\ Tail(t) \in Seq(S) /\ Len(Tail(t)) = Len(t) - 1
         /\ \A i \in 1..(Len(t) - 1) : Tail(t)[i] = t[i + 1]
         /\ Len(t) = 1 => Tail(t) = <<>>
<1>1. Len(t) \in Nat /\ t # <<>> /\ Head(t) = t[1]
  OBVIOUS
<1>2. Tail(t) \in Seq(S) /\ Len(Tail(t)) = Len(t) - 1
  BY <1>1
<1>3. \A i \in 1..(Len(t) - 1) : Tail(t)[i] = t[i + 1]
  BY <1>1
<1>4. ASSUME NEW q \in Seq(S), Len(q) = 0
      PROVE  q = <<>>
  BY <1>4
<1>5. Len(t) = 1 => Len(Tail(t)) = 0
  BY <1>2
<1>6. QED
  BY Zenon, <1>1, <1>2, <1>3, <1>4, <1>5

\* A part of a file is refused, and the whole of it gives what its version keeps.
LEMMA DecodedPiece ==
  ASSUME NEW o, NEW v \in kMinReadVersion..kVersion, CodecFits(o, v),
         NEW k \in 0..Len(Encoded(o, v)), ~Unsupported(SubSeq(Encoded(o, v), 1, k))
  PROVE  LET got == Decoded(SubSeq(Encoded(o, v), 1, k))
         IN /\ got.ok => k = Len(Encoded(o, v)) /\ got.val = Kept(o, v)
            /\ k = Len(Encoded(o, v)) /\ VectorsOf(o) < ProtectLimit => got.ok
<1> DEFINE e == Encoded(o, v)
           w == Write(o, v)
           t == SubSeq(e, 1, k)
<1>1. PICK S : /\ w \in Seq(S) /\ e \in Seq(S) /\ Len(e) = Len(w) + 2
               /\ e[1] = I32(kMagic) /\ e[2] = I32(v)
               /\ \A i \in 1..Len(w) : e[i + 2] = w[i]
  BY EncodedShape
<1> HIDE DEF e, w
<1>2. /\ k \in 0..Len(e) /\ t \in Seq(S) /\ Len(t) = k /\ DOMAIN t = 1..k
      /\ \A i \in 1..k : t[i] = e[i]
  <2>1. k \in 0..Len(e)
    BY DEF e
  <2>2. QED
    BY <1>1, <2>1, Piece
<1> HIDE DEF t
<1>3. CASE k < 2
  <2>1. k = 0 \/ k = 1
    BY <1>2, <1>3
  <2>2. ASSUME k = 0
        PROVE  ~HasUnit(t, "i")
    <3>1. t = <<>>
      BY <1>2, <2>2
    <3>2. QED
      BY <3>1 DEF HasUnit
  <2>3. ASSUME k = 1
        PROVE  ~HasUnit(Tail(t), "i")
    <3>1. Len(t) > 0 /\ Len(t) = 1 /\ t \in Seq(S)
      BY <1>2, <2>3
    <3>2. Tail(t) = <<>>
      BY <3>1, HeadTail
    <3>3. QED
      BY <3>2 DEF HasUnit
  <2>4. ~HasUnit(t, "i") \/ ~HasUnit(Tail(t), "i")
    BY Zenon, <2>1, <2>2, <2>3
  <2>5. Decoded(t) = Bad
    BY Zenon, <2>4 DEF Decoded
  <2>6. ~Decoded(t).ok
    BY <2>5 DEF Bad
  <2>7. k # Len(e)
    BY <1>1, <1>3
  <2>8. QED
    BY Zenon, <2>6, <2>7 DEF e, t
<1>4. CASE k >= 2
  <2>1. PICK n : n = k - 2 /\ n \in 0..Len(w)
    BY <1>1, <1>2, <1>4
  <2>2. SubSeq(t, 3, Len(t)) = SubSeq(w, 1, n)
    <3> DEFINE p == SubSeq(t, 2 + 1, Len(t))
               q == SubSeq(w, 1, n)
    <3>1. p \in Seq(S) /\ Len(p) = k - 2 /\ \A i \in 1..(k - 2) : p[i] = t[2 + i]
      <4>1. 2 \in 0..Len(t)
        BY <1>2, <1>4
      <4>2. QED
        BY <1>2, <4>1, Remainder
    <3>2. q \in Seq(S) /\ Len(q) = n /\ \A i \in 1..n : q[i] = w[i]
      BY <1>1, <2>1, Piece
    <3>3. \A i \in 1..n : t[2 + i] = w[i]
      <4>1. \A i \in 1..n : i \in 1..Len(w) /\ i + 2 \in 1..k /\ 2 + i = i + 2
        BY <1>1, <1>2, <2>1
      <4>2. QED
        BY <1>1, <1>2, <4>1
    <3> HIDE DEF p, q
    <3>4. Len(p) = Len(q) /\ \A i \in 1..Len(p) : p[i] = q[i]
      BY <2>1, <3>1, <3>2, <3>3
    <3>5. p = q
      BY <3>1, <3>2, <3>4, SeqEqual
    <3>6. 2 + 1 = 3
      OBVIOUS
    <3>7. QED
      BY Zenon, <3>5, <3>6 DEF p, q
  <2>3. /\ HasUnit(t, "i") /\ HasUnit(Tail(t), "i")
        /\ t[1].is = kMagic /\ t[2].is = v
    <3>1. t[1] = I32(kMagic) /\ t[2] = I32(v)
      BY <1>1, <1>2, <1>4
    <3>2. t # <<>> /\ Head(t) = t[1] /\ Tail(t) # <<>> /\ Head(Tail(t)) = t[2]
      <4>1. t \in Seq(S) /\ Len(t) > 0 /\ Len(t) = k
        BY <1>2, <1>4
      <4>2. /\ t # <<>> /\ Head(t) = t[1] /\ Tail(t) \in Seq(S) /\ Len(Tail(t)) = k - 1
            /\ \A i \in 1..(k - 1) : Tail(t)[i] = t[i + 1]
        BY <4>1, HeadTail
      <4>3. k - 1 > 0 /\ 1 \in 1..(k - 1) /\ 1 + 1 = 2
        BY <1>2, <1>4
      <4>4. Tail(t) # <<>> /\ Head(Tail(t)) = Tail(t)[1]
        <5>1. PICK q : q = Tail(t)
          OBVIOUS
        <5>2. q \in Seq(S) /\ Len(q) > 0
          BY <4>2, <4>3, <5>1
        <5>3. q # <<>> /\ Head(q) = q[1]
          BY <5>2, HeadTail
        <5>4. QED
          BY <5>1, <5>3
      <4>5. Tail(t)[1] = t[2]
        BY Zenon, <4>2, <4>3
      <4>6. QED
        BY Zenon, <4>2, <4>4, <4>5
    <3>3. QED
      BY <3>1, <3>2 DEF HasUnit, I32
  <2>4. Decoded(t) = Read(SubSeq(w, 1, n), v, 0)
    BY Zenon, <2>2, <2>3 DEF Decoded
  <2>5. CASE n = Len(w)
    <3>1. SubSeq(w, 1, n) = w /\ k = Len(e) /\ t = e
      <4>1. SubSeq(w, 1, n) = w
        BY <1>1, <2>5, Piece
      <4>2. k = Len(e)
        BY <1>1, <1>2, <2>1, <2>5
      <4>3. t = e
        BY <1>1, <1>2, <4>2, Piece DEF t
      <4>4. QED
        BY Zenon, <4>1, <4>2, <4>3
    <3>2. ~Unsupported(w)
      <4>1. ~Unsupported(e)
        BY Zenon, <3>1 DEF t, e
      <4>2. DOMAIN w = 1..Len(w) /\ DOMAIN e = 1..Len(e) /\ Len(w) \in Nat
        BY <1>1
      <4>3. \A i \in 1..Len(w) : i + 2 \in 1..Len(e)
        BY <1>1, <4>2
      <4>4. \A i \in DOMAIN w : e[i + 2] = w[i] /\ i + 2 \in DOMAIN e
        BY Zenon, <1>1, <4>2, <4>3
      <4>5. QED
        BY Zenon, <4>1, <4>4 DEF Unsupported
    <3>3. LET got == Read(w, v, 0)
          IN (got.ok => got.val = Kept(o, v)) /\ (VectorsOf(o) < ProtectLimit => got.ok)
      BY Zenon, <3>2 DEF CodecFits, w
    <3>4. QED
      BY Zenon, <2>4, <3>1, <3>3 DEF e, t
  <2>6. CASE n # Len(w)
    <3>1. n \in 0..(Len(w) - 1) /\ k # Len(e)
      BY <1>1, <2>1, <2>6
    <3>2. ~Read(SubSeq(w, 1, n), v, 0).ok
      BY Zenon, <3>1 DEF CodecFits, w
    <3>3. QED
      BY Zenon, <2>4, <3>1, <3>2 DEF e, t
  <2>7. QED
    BY <2>5, <2>6
<1>5. QED
  BY <1>2, <1>3, <1>4

-----------------------------------------------------------------------------
(***************************************************************************)
(* The inductive invariant.                                                *)
(***************************************************************************)
TriedInv == tried \in Seq(Objs) /\ (phase # "absent" => Len(tried) > 0)

\* A "cpp" file is a part of what one attempt writes; while the last attempt writes it,
\* the remaining part is in rest, and when it is done, nothing is missing.
IsPart(i, k) ==
  LET e == Encoded(tried[i], version)
  IN /\ i \in DOMAIN tried /\ k \in 0..Len(e)
     /\ file = SubSeq(e, 1, k)
     /\ phase = "writing" => i = Len(tried) /\ rest = SubSeq(e, k + 1, Len(e))
     /\ phase = "ok" => i = Len(tried) /\ k = Len(e)
CppInv ==
  Lower[method] = "cpp" =>
    \/ file = <<>> /\ phase \notin {"writing", "ok"}
    \/ \E i \in 1..Len(tried) : \E k \in 0..Len(Encoded(tried[i], version)) : IsPart(i, k)

\* Another file holds whole or broken objects, which an attempt was given; the last one of
\* a file that is done is whole.
Entry(u) ==
  /\ Lower[method] \in {"qs", "rmvl"} /\ u.unit = Lower[method]
  /\ u.is = Bad \/ \E i \in DOMAIN tried : u.is = tried[i]
ForeignInv ==
  Lower[method] # "cpp" =>
    /\ phase # "writing"
    /\ file = [j \in 1..Len(file) |-> file[j]] /\ Len(file) \in Nat
    /\ \A j \in 1..Len(file) : Entry(file[j])
    /\ phase = "ok" => Len(file) > 0 /\ (Lower[method] = "qs" => file = <<Foreign("qs", tried[Len(tried)])>>)

\* A file of an earlier version is as it was.
LegacyInv ==
  version < kVersion =>
    Lower[method] = "cpp" /\ phase # "writing" /\ Len(tried) > 0 /\ file = Encoded(tried[1], version)

FileInv == TypeOK /\ TriedInv /\ CppInv /\ ForeignInv /\ LegacyInv

\* The least of some positions.
LEMMA LeastPosition ==
  ASSUME NEW I, I \subseteq Nat, I # {}
  PROVE  Min(I) \in I /\ \A i \in I : Min(I) <= i
<1> DEFINE R == OpToRel(<, Nat)
<1>1. IsWellFoundedOn(R, Nat)
  BY Zenon, NatLessThanWellFounded
<1> HIDE DEF R
<1>2. PICK m \in I : \A i \in I : ~(<<i, m>> \in R)
  BY <1>1, WFMin
<1>3. \A i \in I : ~(i < m)
  BY <1>2 DEF R, OpToRel
<1>4. \A i \in I : m <= i
  BY <1>3
<1>5. QED
  BY Zenon, <1>4 DEF Min

\* The writer produces what comes before an unsupported object.
LEMMA Leading ==
  ASSUME NEW S, rest \in Seq(S)
  PROVE  Producible \in 0..Len(rest) /\ \A i \in 1..Producible : rest[i] # Throws
<1> DEFINE I == {i \in 1..Len(rest) : rest[i] = Throws}
<1>1. Len(rest) \in Nat /\ DOMAIN rest = 1..Len(rest)
  OBVIOUS
<1>2. Unsupported(rest) <=> I # {}
  BY Zenon, <1>1 DEF Unsupported
<1>3. SelectInSeq(rest, LAMBDA u : u = Throws) = IF I # {} THEN Min(I) ELSE 0
  BY Zenon DEF SelectInSeq
<1>4. I \subseteq 1..Len(rest) /\ \A i \in 1..Len(rest) : i \notin I => rest[i] # Throws
  BY Zenon
<1> HIDE DEF I
<1>5. CASE I = {}
  <2>1. Producible = Len(rest)
    BY Zenon, <1>2, <1>5 DEF Producible
  <2>2. QED
    BY <1>1, <1>4, <1>5, <2>1
<1>6. CASE I # {}
  <2>1. Producible = Min(I) - 1
    BY Zenon, <1>2, <1>3, <1>6 DEF Producible
  <2>2. Min(I) \in I /\ \A i \in I : Min(I) <= i
    <3>1. I \subseteq Nat
      BY <1>1, <1>4
    <3>2. QED
      BY <1>6, <3>1, LeastPosition
  <2>3. Min(I) \in 1..Len(rest)
    BY <1>4, <2>2
  <2>4. ASSUME NEW i \in 1..(Min(I) - 1)
        PROVE  i \in 1..Len(rest) /\ i \notin I
    <3>1. i \in 1..Len(rest) /\ ~(Min(I) <= i)
      BY <1>1, <2>3
    <3>2. QED
      BY <2>2, <3>1
  <2>5. QED
    BY <1>1, <1>4, <2>1, <2>3, <2>4
<1>7. QED
  BY <1>5, <1>6

\* The file of the attempt in progress.
LEMMA Writing ==
  ASSUME CodecIsSound, FileInv, phase = "writing"
  PROVE  /\ Lower[method] = "cpp" /\ ~(version < kVersion) /\ Len(tried) \in Nat \ {0}
         /\ LET e == Encoded(tried[Len(tried)], version)
            IN \E S, k : e \in Seq(S) /\ rest \in Seq(S) /\ Split(e, k, file, rest)
<1>1. Lower[method] = "cpp" /\ ~(version < kVersion)
  BY DEF FileInv, ForeignInv, LegacyInv
<1>2. PICK i \in 1..Len(tried) : \E k \in 0..Len(Encoded(tried[i], version)) : IsPart(i, k)
  BY <1>1 DEF FileInv, CppInv
<1>3. PICK k \in 0..Len(Encoded(tried[i], version)) : IsPart(i, k)
  BY <1>2
<1>4. Len(tried) \in Nat \ {0} /\ i = Len(tried)
  BY <1>2, <1>3 DEF FileInv, TriedInv, IsPart
<1> DEFINE o == tried[Len(tried)]
           e == Encoded(o, version)
<1>5. /\ k \in 0..Len(e) /\ file = SubSeq(e, 1, k)
      /\ rest = SubSeq(e, k + 1, Len(e))
  BY Zenon, <1>3, <1>4 DEF IsPart
<1>6. o \in Objs /\ version \in kMinReadVersion..kVersion
  BY <1>4 DEF FileInv, TriedInv, TypeOK
<1>7. CodecFits(o, version)
  BY Zenon, <1>6 DEF CodecIsSound
<1> HIDE DEF o
<1>8. PICK S : e \in Seq(S)
  BY Zenon, <1>7, EncodedShape
<1> HIDE DEF e
<1>9. rest \in Seq(S)
  BY <1>5, <1>8, Remainder
<1>10. QED
  BY Zenon, <1>1, <1>4, <1>5, <1>8, <1>9 DEF Split, e, o

\* What the writer passes on leads from one part of the file to a larger one.
LEMMA PartWritten ==
  ASSUME CodecIsSound, FileInv, phase = "writing",
         NEW j \in 0..Producible, NEW f, f = file \o SubSeq(rest, 1, j)
  PROVE  LET e == Encoded(tried[Len(tried)], version)
         IN /\ ~Unsupported(f)
            /\ \E k : Split(e, k, f, SubSeq(rest, j + 1, Len(rest))) /\ (j = Len(rest) => k = Len(e))
<1> DEFINE e == Encoded(tried[Len(tried)], version)
           p == SubSeq(rest, 1, j)
<1>1. PICK S, k : e \in Seq(S) /\ rest \in Seq(S) /\ Split(e, k, file, rest)
  BY Zenon, Writing
<1> HIDE DEF e
<1>2. Producible \in 0..Len(rest) /\ \A i \in 1..Producible : rest[i] # Throws
  BY <1>1, Leading
<1>3. j \in 0..Len(rest) /\ \A i \in 1..j : rest[i] # Throws
  <2>1. Len(rest) \in Nat
    BY <1>1
  <2> HIDE DEF Producible
  <2>2. j \in 0..Len(rest) /\ \A i \in 1..j : i \in 1..Producible
    BY <1>2, <2>1
  <2>3. QED
    BY Zenon, <1>2, <2>2
<1>4. /\ Len(rest) = Len(e) - k
      /\ Split(e, k + j, f, SubSeq(rest, j + 1, Len(rest)))
  BY Zenon, <1>1, <1>3, Resumed
<1>5. k \in 0..Len(e) /\ (j = Len(rest) => k + j = Len(e))
  BY <1>1, <1>4 DEF Split
<1>6. ~Unsupported(f)
  <2>1. file \in Seq(S) /\ DOMAIN file = 1..k /\ Len(file) = k
    BY <1>1, Piece DEF Split
  <2>2. p \in Seq(S) /\ Len(p) = j /\ \A i \in 1..j : p[i] = rest[i]
    BY <1>1, <1>3, Piece
  <2>3. \A i \in 1..k : file[i] # Throws
    BY Zenon, <2>1 DEF FileInv, TypeOK, Unsupported
  <2> HIDE DEF p
  <2>4. /\ file \o p \in Seq(S) /\ Len(file \o p) = Len(file) + Len(p)
        /\ \A i \in 1..(Len(file) + Len(p)) :
             (file \o p)[i] = IF i <= Len(file) THEN file[i] ELSE p[i - Len(file)]
    BY <2>1, <2>2, ConcatProperties
  <2>5. f = file \o p
    BY DEF p
  <2>6. DOMAIN f = 1..(k + j) /\ \A i \in 1..(k + j) : f[i] = IF i <= k THEN file[i] ELSE p[i - k]
    <3>1. f \in Seq(S) /\ Len(f) = k + j
      BY Zenon, <2>1, <2>2, <2>4, <2>5
    <3>2. DOMAIN f = 1..(k + j)
      BY <3>1
    <3>3. QED
      BY Zenon, <2>1, <2>2, <2>4, <2>5, <3>2
  <2>7. k \in Nat /\ j \in Nat
    <3>1. Len(e) \in Nat /\ Len(rest) \in Nat
      BY <1>1
    <3>2. QED
      BY <1>3, <1>5, <3>1
  <2>8. \A i \in 1..(k + j) : IF i <= k THEN i \in 1..k ELSE i - k \in 1..j
    BY <2>7
  <2>9. \A i \in 1..(k + j) : f[i] # Throws
    BY Zenon, <1>3, <2>2, <2>3, <2>6, <2>8
  <2>10. QED
    BY Zenon, <2>6, <2>9 DEF Unsupported
<1>7. QED
  BY Zenon, <1>4, <1>5, <1>6 DEF e

\* A step of the writer that leaves a part of the attempt's file keeps the invariant.
LEMMA PartStep ==
  ASSUME FileInv, Lower[method] = "cpp", ~(version < kVersion), Len(tried) \in Nat \ {0},
         UNCHANGED <<method, tried, version>>,
         phase' \in {"writing", "ok", "cut", "threw", "crashed"},
         ~Unsupported(file'),
         NEW k, NEW r, Split(Encoded(tried[Len(tried)], version), k, file', r),
         phase' = "writing" => rest' = r,
         phase' = "ok" => k = Len(Encoded(tried[Len(tried)], version))
  PROVE  FileInv'
<1>1. method' = method /\ tried' = tried /\ version' = version /\ Lower[method'] = "cpp"
  BY Zenon
<1>2. TypeOK'
  BY Zenon, <1>1 DEF FileInv, TypeOK, Unsupported
<1>3. TriedInv'
  BY <1>1 DEF FileInv, TriedInv
<1>4. CppInv'
  <2>1. PICK i \in 1..Len(tried) : i = Len(tried)
    OBVIOUS
  <2>2. i \in DOMAIN tried
    BY <2>1 DEF FileInv, TriedInv
  <2>3. IsPart(i, k)' /\ k \in 0..Len(Encoded(tried'[i], version'))
    BY Zenon, <1>1, <2>1, <2>2 DEF IsPart, Split
  <2>4. QED
    BY Zenon, <1>1, <2>1, <2>3 DEF CppInv
<1>5. ForeignInv' /\ LegacyInv'
  BY Zenon, <1>1 DEF ForeignInv, LegacyInv
<1>6. QED
  BY Zenon, <1>2, <1>3, <1>4, <1>5 DEF FileInv

-----------------------------------------------------------------------------
(***************************************************************************)
(* The initial states.                                                     *)
(***************************************************************************)
\* The units of a file make a sequence.
LEMMA EncodedUnits ==
  ASSUME CodecIsSound, NEW o \in Objs, NEW v \in kMinReadVersion..kVersion
  PROVE  \E S : Encoded(o, v) \in Seq(S)
<1>1. CodecFits(o, v)
  BY Zenon DEF CodecIsSound
<1>2. QED
  BY Zenon, <1>1, EncodedShape

\* A whole file is a part of itself, and so is nothing.
LEMMA Ends ==
  ASSUME NEW S, NEW e \in Seq(S)
  PROVE  Split(e, Len(e), e, <<>>) /\ Split(e, 0, <<>>, e)
<1>1. Len(e) \in 0..Len(e) /\ e = SubSeq(e, 1, Len(e)) /\ SubSeq(e, Len(e) + 1, Len(e)) = <<>>
  OBVIOUS
<1>2. 0 \in 0..Len(e) /\ SubSeq(e, 1, 0) = <<>> /\ e = SubSeq(e, 0 + 1, Len(e))
  OBVIOUS
<1>3. QED
  BY Zenon, <1>1, <1>2 DEF Split

\* The units of "cpp" files, and the whole objects of the others, are not Throws.
LEMMA ForeignUnits ==
  \A u : u.unit \in {"qs", "rmvl"} => u # Throws
<1>1. Throws.unit = "throws"
  BY DEF Throws
<1>2. QED
  BY <1>1

\* The invariant holds initially.
LEMMA InitFileInv ==
  ASSUME CodecIsSound, Init
  PROVE  FileInv
<1>1. method \in Methods /\ kVersion = 3 /\ kMinReadVersion = 1
  BY DEF Init, kVersion, kMinReadVersion
<1>2. CASE tried = <<>> /\ phase = "absent" /\ version = kVersion /\ file = <<>>
  <2>1. ~Unsupported(file)
    BY <1>2 DEF Unsupported
  <2>2. TypeOK
    BY <1>1, <1>2, <2>1 DEF TypeOK
  <2>3. TriedInv /\ CppInv /\ LegacyInv
    BY <1>1, <1>2 DEF TriedInv, CppInv, LegacyInv
  <2>4. file = [j \in 1..Len(file) |-> file[j]] /\ Len(file) = 0
    BY <1>2
  <2>5. ForeignInv
    BY <1>2, <2>4 DEF ForeignInv
  <2>6. QED
    BY <2>2, <2>3, <2>5 DEF FileInv
<1>3. CASE \E o \in Objs, v \in kMinReadVersion..(kVersion - 1) :
             /\ method = "cpp"
             /\ ~Unsupported(Encoded(o, v))
             /\ tried = <<o>> /\ phase = "ok" /\ version = v /\ file = Encoded(o, v)
  <2>1. PICK o \in Objs, v \in kMinReadVersion..(kVersion - 1) :
             /\ method = "cpp"
             /\ ~Unsupported(Encoded(o, v))
             /\ tried = <<o>> /\ phase = "ok" /\ version = v /\ file = Encoded(o, v)
    BY Zenon, <1>3
  <2>2. v \in kMinReadVersion..kVersion /\ Lower[method] = "cpp"
    BY <1>1, <2>1, ObjectAssumption
  <2>3. tried \in Seq(Objs) /\ Len(tried) = 1 /\ DOMAIN tried = {1} /\ tried[1] = o
    BY <2>1
  <2>4. TypeOK
    BY Zenon, <1>1, <2>1, <2>2, <2>3 DEF TypeOK
  <2>5. TriedInv
    BY <2>3 DEF TriedInv
  <2>6. CppInv
    <3>1. PICK S : Encoded(o, v) \in Seq(S)
      BY Zenon, <2>2, EncodedUnits
    <3>2. Split(Encoded(o, v), Len(Encoded(o, v)), Encoded(o, v), <<>>)
      BY Zenon, <3>1, Ends
    <3>3. 1 \in 1..Len(tried)
      BY <2>3
    <3>4. IsPart(1, Len(Encoded(o, v)))
      <4>1. phase # "writing"
        BY <2>1
      <4>2. QED
        BY Zenon, <2>1, <2>3, <3>2, <4>1 DEF IsPart, Split
    <3>5. QED
      BY Zenon, <2>1, <2>3, <3>2, <3>3, <3>4 DEF CppInv, Split
  <2>7. ForeignInv /\ LegacyInv
    BY <2>1, <2>2, <2>3 DEF ForeignInv, LegacyInv
  <2>8. QED
    BY <2>4, <2>5, <2>6, <2>7 DEF FileInv
<1>4. QED
  BY Zenon, <1>2, <1>3 DEF Init

-----------------------------------------------------------------------------
(***************************************************************************)
(* The steps of the "cpp" writer.                                          *)
(***************************************************************************)
\* What the ofstream passes on is a larger part.
LEMMA FlushStep ==
  ASSUME CodecIsSound, FileInv, Flush
  PROVE  FileInv'
<1>1. phase = "writing" /\ UNCHANGED <<method, tried, phase, version>>
  BY Zenon DEF Flush
<1>2. PICK j \in 1..Producible :
        file' = file \o SubSeq(rest, 1, j) /\ rest' = SubSeq(rest, j + 1, Len(rest))
  BY Zenon DEF Flush
<1>3. /\ Lower[method] = "cpp" /\ ~(version < kVersion) /\ Len(tried) \in Nat \ {0}
      /\ \E S : rest \in Seq(S)
  BY Zenon, <1>1, Writing
<1>4. j \in 0..Producible
  <2>1. Producible \in Int
    BY <1>3, Leading
  <2> HIDE DEF Producible
  <2>2. QED
    BY <1>2, <2>1
<1> DEFINE e == Encoded(tried[Len(tried)], version)
<1>5. ~Unsupported(file') /\ \E k : Split(e, k, file', rest')
  BY Zenon, <1>1, <1>2, <1>4, PartWritten
<1> HIDE DEF e
<1>6. PICK k : Split(e, k, file', rest')
  BY Zenon, <1>5
<1>7. phase' \in {"writing", "ok", "cut", "threw", "crashed"} /\ phase' # "ok"
  BY <1>1
<1>8. QED
  BY Zenon, <1>1, <1>3, <1>5, <1>6, <1>7, PartStep DEF e

\* A writer that throws leaves a part.
LEMMA WriteThrowsStep ==
  ASSUME CodecIsSound, FileInv, WriteThrows
  PROVE  FileInv'
<1>1. phase = "writing" /\ phase' = "threw" /\ UNCHANGED <<method, tried, version>>
  BY Zenon DEF WriteThrows
<1>2. PICK j \in 0..Producible : file' = file \o SubSeq(rest, 1, j)
  BY Zenon DEF WriteThrows
<1>3. Lower[method] = "cpp" /\ ~(version < kVersion) /\ Len(tried) \in Nat \ {0}
  BY Zenon, <1>1, Writing
<1> DEFINE e == Encoded(tried[Len(tried)], version)
<1>4. ~Unsupported(file') /\ \E k, r : Split(e, k, file', r)
  BY Zenon, <1>1, <1>2, PartWritten
<1> HIDE DEF e
<1>5. PICK k, r : Split(e, k, file', r)
  BY Zenon, <1>4
<1>6. phase' \in {"writing", "ok", "cut", "threw", "crashed"} /\ phase' # "ok" /\ phase' # "writing"
  BY <1>1
<1>7. QED
  BY Zenon, <1>1, <1>3, <1>4, <1>5, <1>6, PartStep DEF e

\* The destructor's flush brings the whole file, or a part of it.
LEMMA CloseStep ==
  ASSUME CodecIsSound, FileInv, Close
  PROVE  FileInv'
<1>1. /\ phase = "writing" /\ phase' \in {"ok", "cut"} /\ ~Unsupported(rest)
      /\ UNCHANGED <<method, tried, version>>
  BY Zenon DEF Close
<1>2. PICK S, n : rest \in Seq(S) /\ Split(Encoded(tried[Len(tried)], version), n, file, rest)
  BY Zenon, <1>1, Writing
<1>3. Producible = Len(rest) /\ Len(rest) \in Nat
  <2>1. Len(rest) \in Nat
    BY <1>2
  <2>2. QED
    BY Zenon, <1>1, <2>1 DEF Producible
<1> HIDE DEF Producible
<1>4. \E j \in 0..Producible :
        file' = file \o SubSeq(rest, 1, j) /\ (phase' = "ok" => j = Len(rest))
  <2>1. CASE file' = file \o rest /\ phase' = "ok"
    <3>1. SubSeq(rest, 1, Len(rest)) = rest
      <4>1. Len(rest) \in 0..Len(rest)
        BY <1>3
      <4>2. QED
        BY <1>2, <4>1, Piece
    <3>2. Len(rest) \in 0..Producible
      BY <1>3
    <3>3. QED
      BY Zenon, <2>1, <3>1, <3>2
  <2>2. CASE \E k \in 0..(Len(rest) - 1) : file' = file \o SubSeq(rest, 1, k) /\ phase' = "cut"
    <3>1. PICK k \in 0..(Len(rest) - 1) : file' = file \o SubSeq(rest, 1, k) /\ phase' = "cut"
      BY Zenon, <2>2
    <3>2. k \in 0..Producible /\ phase' # "ok"
      BY <1>3, <3>1
    <3>3. QED
      BY Zenon, <3>1, <3>2
  <2>3. QED
    BY Zenon, <2>1, <2>2 DEF Close
<1>5. PICK j \in 0..Producible :
        file' = file \o SubSeq(rest, 1, j) /\ (phase' = "ok" => j = Len(rest))
  BY Zenon, <1>4
<1>6. Lower[method] = "cpp" /\ ~(version < kVersion) /\ Len(tried) \in Nat \ {0}
  BY Zenon, <1>1, Writing
<1> DEFINE e == Encoded(tried[Len(tried)], version)
<1>7. ~Unsupported(file') /\ \E k, r : Split(e, k, file', r) /\ (j = Len(rest) => k = Len(e))
  BY Zenon, <1>1, <1>5, PartWritten
<1> HIDE DEF e
<1>8. PICK k, r : Split(e, k, file', r) /\ (j = Len(rest) => k = Len(e))
  BY Zenon, <1>7
<1>9. phase' \in {"writing", "ok", "cut", "threw", "crashed"} /\ phase' # "writing"
  BY <1>1
<1>10. QED
  BY Zenon, <1>1, <1>5, <1>6, <1>7, <1>8, <1>9, PartStep DEF e

\* A crash leaves the part that is on disk.
LEMMA CrashStep ==
  ASSUME CodecIsSound, FileInv, Crash
  PROVE  FileInv'
<1>1. phase = "writing" /\ phase' = "crashed" /\ UNCHANGED <<method, tried, version, file>>
  BY Zenon DEF Crash
<1>2. Lower[method] = "cpp" /\ ~(version < kVersion) /\ Len(tried) \in Nat \ {0}
  BY Zenon, <1>1, Writing
<1> DEFINE e == Encoded(tried[Len(tried)], version)
<1>3. \E k, r : Split(e, k, file, r)
  BY Zenon, <1>1, Writing
<1> HIDE DEF e
<1>4. PICK k, r : Split(e, k, file', r)
  BY Zenon, <1>1, <1>3
<1>5. phase' \in {"writing", "ok", "cut", "threw", "crashed"} /\ phase' # "ok" /\ phase' # "writing"
  BY <1>1
<1>6. ~Unsupported(file')
  BY Zenon, <1>1 DEF FileInv, TypeOK
<1>7. QED
  BY Zenon, <1>1, <1>2, <1>4, <1>5, <1>6, PartStep DEF e

-----------------------------------------------------------------------------
(***************************************************************************)
(* The steps of rcompss_serialize.                                         *)
(***************************************************************************)
\* One more attempt.
LEMMA Grown ==
  ASSUME NEW S, NEW q \in Seq(S), NEW o \in S
  PROVE  /\ Append(q, o) \in Seq(S) /\ Len(Append(q, o)) \in Nat \ {0}
         /\ Len(Append(q, o)) \in DOMAIN Append(q, o)
         /\ Len(Append(q, o)) \in 1..Len(Append(q, o))
         /\ Append(q, o)[Len(Append(q, o))] = o
         /\ \A i \in DOMAIN q : i \in DOMAIN Append(q, o) /\ Append(q, o)[i] = q[i]
         /\ Len(q) > 0 => 1 \in DOMAIN q
  OBVIOUS

\* What every attempt does to the invariant's first parts.
LEMMA TriedStep ==
  ASSUME FileInv, NEW o \in Objs, tried' = Append(tried, o)
  PROVE  /\ TriedInv' /\ \A i \in DOMAIN tried' : tried'[i] \in Objs
         /\ Len(tried') \in DOMAIN tried' /\ Len(tried') \in 1..Len(tried') /\ tried'[Len(tried')] = o
         /\ \A i \in DOMAIN tried : i \in DOMAIN tried' /\ tried'[i] = tried[i]
<1>1. tried \in Seq(Objs)
  BY DEF FileInv, TriedInv
<1>2. /\ tried' \in Seq(Objs) /\ Len(tried') \in Nat \ {0}
      /\ Len(tried') \in DOMAIN tried' /\ Len(tried') \in 1..Len(tried') /\ tried'[Len(tried')] = o
      /\ \A i \in DOMAIN tried : i \in DOMAIN tried' /\ tried'[i] = tried[i]
  <2>1. /\ Append(tried, o) \in Seq(Objs) /\ Len(Append(tried, o)) \in Nat \ {0}
        /\ Len(Append(tried, o)) \in DOMAIN Append(tried, o)
        /\ Len(Append(tried, o)) \in 1..Len(Append(tried, o))
        /\ Append(tried, o)[Len(Append(tried, o))] = o
        /\ \A i \in DOMAIN tried : i \in DOMAIN Append(tried, o) /\ Append(tried, o)[i] = tried[i]
    BY <1>1, Grown
  <2>2. QED
    BY Zenon, <2>1
<1>3. \A i \in DOMAIN tried' : tried'[i] \in Objs
  BY <1>2
<1>4. TriedInv'
  <2>1. Len(tried') > 0
    BY <1>2
  <2>2. QED
    BY Zenon, <1>2, <2>1 DEF TriedInv
<1>5. QED
  BY Zenon, <1>2, <1>3, <1>4

\* The "cpp" writer truncates the file.
LEMMA OpenStep ==
  ASSUME CodecIsSound, FileInv, NEW o \in Objs, tried' = Append(tried, o),
         Lower[method] = "cpp", method' = method,
         phase' = "writing", file' = <<>>, rest' = Encoded(o, kVersion), version' = kVersion
  PROVE  FileInv'
<1>1. /\ TriedInv' /\ \A i \in DOMAIN tried' : tried'[i] \in Objs
      /\ Len(tried') \in DOMAIN tried' /\ Len(tried') \in 1..Len(tried') /\ tried'[Len(tried')] = o
  BY Zenon, TriedStep
<1>2. kVersion \in kMinReadVersion..kVersion /\ ~(kVersion < kVersion)
  BY DEF kVersion, kMinReadVersion
<1>3. TypeOK'
  <2>1. ~Unsupported(<<>>)
    BY DEF Unsupported
  <2>2. phase' \in {"absent", "writing", "ok", "cut", "threw", "crashed"}
    OBVIOUS
  <2>3. QED
    BY Zenon, <1>1, <1>2, <2>1, <2>2 DEF FileInv, TypeOK
<1>4. PICK S : Encoded(o, kVersion) \in Seq(S)
  BY Zenon, <1>2, EncodedUnits
<1> DEFINE e == Encoded(o, kVersion)
<1>5. Split(e, 0, file', rest')
  BY Zenon, <1>4, Ends
<1>6. Encoded(tried'[Len(tried')], version') = e
  BY Zenon, <1>1
<1> HIDE DEF e
<1>7. \E i \in 1..Len(tried') : IsPart(i, 0)' /\ Encoded(tried'[i], version') = e /\ 0 \in 0..Len(e)
  <2>0. PICK i \in 1..Len(tried') : i = Len(tried')
    BY Zenon, <1>1
  <2>1. phase' # "ok"
    OBVIOUS
  <2>2. 0 \in 0..Len(e) /\ file' = SubSeq(e, 1, 0) /\ rest' = SubSeq(e, 0 + 1, Len(e))
    BY Zenon, <1>5 DEF Split
  <2>3. QED
    BY Zenon, <1>1, <1>6, <2>0, <2>1, <2>2 DEF IsPart
<1>8. CppInv'
  BY Zenon, <1>1, <1>6, <1>7 DEF CppInv
<1>9. ForeignInv' /\ LegacyInv'
  BY Zenon, <1>2 DEF ForeignInv, LegacyInv
<1>10. QED
  BY Zenon, <1>1, <1>3, <1>8, <1>9 DEF FileInv

\* The writers of qs and RMVL leave whole and broken objects.
LEMMA ForeignStep ==
  ASSUME FileInv, NEW o \in Objs, tried' = Append(tried, o),
         Lower[method] \in {"qs", "rmvl"}, method' = method, version' = version,
         phase' \in {"ok", "threw"},
         NEW S, file' \in Seq(S), \A u \in S : Entry(u)',
         phase' = "ok" => Len(file') > 0 /\ (Lower[method] = "qs" => file' = <<Foreign("qs", o)>>)
  PROVE  FileInv'
<1>1. /\ TriedInv' /\ \A i \in DOMAIN tried' : tried'[i] \in Objs
      /\ tried'[Len(tried')] = o
  BY Zenon, TriedStep
<1>2. Lower[method'] # "cpp" /\ Lower[method'] \in {"qs", "rmvl"}
  OBVIOUS
<1>3. ~(version < kVersion) /\ Lower[method] # "cpp"
  BY <1>2 DEF FileInv, LegacyInv
<1>4. /\ file' = [j \in 1..Len(file') |-> file'[j]] /\ Len(file') \in Nat
      /\ DOMAIN file' = 1..Len(file') /\ \A j \in 1..Len(file') : file'[j] \in S
  OBVIOUS
<1>5. ~Unsupported(file')
  <2>1. \A u \in S : u.unit \in {"qs", "rmvl"}
    BY Zenon, <1>2 DEF Entry
  <2>2. \A j \in DOMAIN file' : file'[j] # Throws
    <3>1. \A j \in DOMAIN file' : file'[j] \in S
      BY <1>4
    <3>2. QED
      BY <2>1, <3>1, ForeignUnits
  <2>3. QED
    BY Zenon, <2>2 DEF Unsupported
<1>6. TypeOK'
  <2>1. phase' \in {"absent", "writing", "ok", "cut", "threw", "crashed"}
    OBVIOUS
  <2>2. QED
    BY Zenon, <1>1, <1>5, <2>1 DEF FileInv, TypeOK
<1>7. phase' # "writing"
  OBVIOUS
<1>8. ForeignInv'
  BY Zenon, <1>1, <1>4, <1>7 DEF ForeignInv
<1>9. CppInv' /\ LegacyInv'
  BY Zenon, <1>2, <1>3 DEF CppInv, LegacyInv
<1>10. QED
  BY Zenon, <1>1, <1>6, <1>8, <1>9 DEF FileInv

\* The writer cannot open the file.
LEMMA RefusedStep ==
  ASSUME FileInv, NEW o \in Objs, tried' = Append(tried, o), phase # "writing",
         phase' = "threw", UNCHANGED <<method, file, rest, version>>
  PROVE  FileInv'
<1>1. /\ TriedInv' /\ \A i \in DOMAIN tried' : tried'[i] \in Objs
      /\ \A i \in DOMAIN tried : i \in DOMAIN tried' /\ tried'[i] = tried[i]
      /\ Len(tried') \in 1..Len(tried')
  BY Zenon, TriedStep
<1>2. phase' \notin {"writing", "ok"} /\ phase' # "ok" /\ phase' # "writing"
  OBVIOUS
<1>3. TypeOK'
  <2>1. phase' \in {"absent", "writing", "ok", "cut", "threw", "crashed"}
    OBVIOUS
  <2>2. QED
    BY Zenon, <1>1, <2>1 DEF FileInv, TypeOK, Unsupported
<1>4. tried \in Seq(Objs) /\ DOMAIN tried = 1..Len(tried)
  BY DEF FileInv, TriedInv
<1>5. tried' \in Seq(Objs) /\ DOMAIN tried' = 1..Len(tried')
  BY <1>4
<1>6. CppInv'
  <2>1. SUFFICES ASSUME Lower[method] = "cpp", ~(file = <<>>)
                 PROVE  \E i \in 1..Len(tried') : \E k \in 0..Len(Encoded(tried'[i], version)) : IsPart(i, k)'
    BY Zenon, <1>2 DEF CppInv
  <2>2. PICK i \in 1..Len(tried) : \E k \in 0..Len(Encoded(tried[i], version)) : IsPart(i, k)
    BY Zenon, <2>1 DEF FileInv, CppInv
  <2>3. PICK k \in 0..Len(Encoded(tried[i], version)) : IsPart(i, k)
    BY Zenon, <2>2
  <2>4. i \in DOMAIN tried' /\ tried'[i] = tried[i]
    BY Zenon, <1>1, <2>3 DEF IsPart
  <2>5. IsPart(i, k)'
    BY Zenon, <1>2, <2>3, <2>4 DEF IsPart
  <2>6. QED
    BY Zenon, <1>5, <2>3, <2>4, <2>5
<1>7. ForeignInv'
  <2>1. ASSUME NEW u, Entry(u)
        PROVE  Entry(u)'
    BY Zenon, <1>1, <2>1 DEF Entry
  <2>2. QED
    BY Zenon, <1>2, <2>1 DEF FileInv, ForeignInv
<1>8. LegacyInv'
  <2>1. SUFFICES ASSUME version < kVersion
                 PROVE  Lower[method] = "cpp" /\ Len(tried') > 0 /\ file = Encoded(tried'[1], version)
    BY Zenon, <1>2 DEF LegacyInv
  <2>2. Lower[method] = "cpp" /\ Len(tried) > 0 /\ file = Encoded(tried[1], version)
    BY Zenon, <2>1 DEF FileInv, LegacyInv
  <2>3. 1 \in DOMAIN tried /\ Len(tried') > 0
    BY <1>1, <1>4, <1>5, <2>2
  <2>4. tried'[1] = tried[1]
    BY Zenon, <1>1, <2>3
  <2>5. QED
    BY Zenon, <2>2, <2>3, <2>4
<1>9. QED
  BY Zenon, <1>1, <1>3, <1>6, <1>7, <1>8 DEF FileInv

\* Short sequences, and functions that are sequences.
LEMMA ShortSeq ==
  ASSUME NEW S
  PROVE  /\ <<>> \in Seq(S)
         /\ \A x \in S : <<x>> \in Seq(S) /\ Len(<<x>>) = 1
         /\ \A n \in Nat : \A f \in [1..n -> S] : f \in Seq(S)
  OBVIOUS

\* Adding to a sequence.
LEMMA Added ==
  ASSUME NEW S, NEW f \in Seq(S), NEW g \in Seq(S), NEW x \in S
  PROVE  f \o g \o <<x>> \in Seq(S) /\ Len(f \o g \o <<x>>) > 0
<1>1. f \o g \in Seq(S)
  BY ConcatProperties
<1>2. PICK h \in Seq(S) : h = f \o g
  BY Zenon, <1>1
<1>3. PICK q \in Seq(S) : q = <<x>> /\ Len(q) = 1
  BY ShortSeq
<1>4. h \o q \in Seq(S) /\ Len(h \o q) = Len(h) + Len(q)
  BY ConcatProperties
<1>5. Len(h) \in Nat /\ Len(h) + 1 > 0
  OBVIOUS
<1>6. Len(h \o q) > 0
  BY Zenon, <1>3, <1>4, <1>5
<1>7. QED
  BY Zenon, <1>2, <1>3, <1>4, <1>6

\* The entries of a file stay entries, and so are the ones an attempt adds.
LEMMA EntriesStep ==
  ASSUME FileInv, NEW o \in Objs, tried' = Append(tried, o), method' = method,
         Lower[method] \in {"qs", "rmvl"}
  PROVE  /\ \A u : Entry(u) => Entry(u)'
         /\ Entry(Foreign(Lower[method], o))' /\ Entry(Foreign(Lower[method], Bad))'
<1>1. /\ Len(tried') \in DOMAIN tried' /\ tried'[Len(tried')] = o
      /\ \A i \in DOMAIN tried : i \in DOMAIN tried' /\ tried'[i] = tried[i]
  BY Zenon, TriedStep
<1>2. \A m, x : Foreign(m, x).unit = m /\ Foreign(m, x).is = x
  BY DEF Foreign
<1>3. ASSUME NEW u, Entry(u)
      PROVE  Entry(u)'
  BY Zenon, <1>1, <1>3 DEF Entry
<1>4. Entry(Foreign(Lower[method], o))'
  <2>1. PICK u : u = Foreign(Lower[method], o)
    OBVIOUS
  <2>2. u.unit = Lower[method'] /\ \E i \in DOMAIN tried' : u.is = tried'[i]
    <3>1. u.unit = Lower[method] /\ u.is = o
      BY <1>2, <2>1
    <3>2. QED
      BY Zenon, <1>1, <3>1
  <2>3. Entry(u)'
    BY Zenon, <2>2 DEF Entry
  <2>4. QED
    BY Zenon, <2>1, <2>2 DEF Entry
<1>5. Entry(Foreign(Lower[method], Bad))'
  BY Zenon, <1>2 DEF Entry
<1>6. QED
  BY Zenon, <1>3, <1>4, <1>5

\* qs writes one object.
LEMMA QsStep ==
  ASSUME FileInv, NEW o \in Objs, tried' = Append(tried, o),
         Lower[method] = "qs", method' = method, version' = version,
         \/ phase' = "ok" /\ file' = <<Foreign("qs", o)>>
         \/ phase' = "threw" /\ file' = <<Foreign("qs", Bad)>>
  PROVE  FileInv'
<1> DEFINE S == {Foreign("qs", o), Foreign("qs", Bad)}
<1>1. Lower[method] \in {"qs", "rmvl"} /\ phase' \in {"ok", "threw"}
  OBVIOUS
<1>2. file' \in Seq(S) /\ Len(file') > 0
  <2>1. \E x \in S : file' = <<x>>
    BY Zenon
  <2> HIDE DEF S
  <2>2. PICK x \in S : file' = <<x>>
    BY Zenon, <2>1
  <2>3. <<x>> \in Seq(S) /\ Len(<<x>>) = 1 /\ 1 > 0
    BY ShortSeq
  <2>4. QED
    BY Zenon, <2>2, <2>3
<1>3. phase' = "ok" => file' = <<Foreign("qs", o)>>
  OBVIOUS
<1>4. Entry(Foreign("qs", o))' /\ Entry(Foreign("qs", Bad))'
  BY Zenon, <1>1, EntriesStep
<1>5. \A u \in S : Entry(u)'
  BY Zenon, <1>4 DEF Entry
<1> HIDE DEF S
<1>6. QED
  BY Zenon, <1>1, <1>2, <1>3, <1>5, ForeignStep

\* RMVL appends to the file.
LEMMA RmvlStep ==
  ASSUME FileInv, NEW o \in Objs, tried' = Append(tried, o),
         Lower[method] = "rmvl", method' = method, version' = version,
         NEW first \in {<<>>, <<Foreign("rmvl", Bad)>>, <<Foreign("rmvl", o)>>},
         \/ phase' = "ok" /\ file' = file \o first \o <<Foreign("rmvl", o)>>
         \/ phase' = "threw" /\ file' = file \o first \o <<Foreign("rmvl", Bad)>>
  PROVE  FileInv'
<1> DEFINE T == {file[j] : j \in 1..Len(file)}
           S == T \union {Foreign("rmvl", o), Foreign("rmvl", Bad)}
<1>1. Lower[method] \in {"qs", "rmvl"} /\ Lower[method] # "cpp" /\ Lower[method] # "qs"
  OBVIOUS
<1>2. phase' \in {"ok", "threw"}
  OBVIOUS
<1>3. /\ file = [j \in 1..Len(file) |-> file[j]] /\ Len(file) \in Nat
      /\ \A j \in 1..Len(file) : Entry(file[j])
  BY Zenon, <1>1 DEF FileInv, ForeignInv
<1>4. file \in Seq(S)
  <2>1. \A j \in 1..Len(file) : file[j] \in S
    BY Zenon
  <2> HIDE DEF S, T
  <2>2. [j \in 1..Len(file) |-> file[j]] \in [1..Len(file) -> S]
    BY Zenon, <2>1
  <2>3. file \in [1..Len(file) -> S]
    BY Zenon, <1>3, <2>2
  <2>4. QED
    BY Zenon, <1>3, <2>3, ShortSeq
<1>5. first \in Seq(S) /\ Foreign("rmvl", o) \in S /\ Foreign("rmvl", Bad) \in S
  <2>1. Foreign("rmvl", o) \in S /\ Foreign("rmvl", Bad) \in S
    BY Zenon
  <2> HIDE DEF S, T
  <2>2. <<>> \in Seq(S) /\ \A x \in S : <<x>> \in Seq(S)
    BY ShortSeq
  <2>3. QED
    BY Zenon, <2>1, <2>2
<1>6. \A u \in S : Entry(u)'
  <2>1. /\ \A u : Entry(u) => Entry(u)'
        /\ Entry(Foreign("rmvl", o))' /\ Entry(Foreign("rmvl", Bad))'
    BY Zenon, <1>1, EntriesStep
  <2>2. \A u \in T : Entry(u)'
    BY Zenon, <1>3, <2>1
  <2>3. ASSUME NEW u \in S
        PROVE  Entry(u)'
    <3>1. u \in T \/ u = Foreign("rmvl", o) \/ u = Foreign("rmvl", Bad)
      BY Zenon
    <3> HIDE DEF S, T
    <3>2. QED
      BY Zenon, <2>1, <2>2, <3>1 DEF Entry
  <2>4. QED
    BY Zenon, <2>3
<1> HIDE DEF S, T
<1>7. file' \in Seq(S) /\ Len(file') > 0
  <2>1. \A x \in S : file \o first \o <<x>> \in Seq(S) /\ Len(file \o first \o <<x>>) > 0
    BY Zenon, <1>4, <1>5, Added
  <2>2. \E x \in S : file' = file \o first \o <<x>>
    BY Zenon, <1>5
  <2>3. QED
    BY Zenon, <2>1, <2>2
<1>8. QED
  BY Zenon, <1>1, <1>2, <1>6, <1>7, ForeignStep

\* An attempt to write the file.
LEMMA SerializeStep ==
  ASSUME CodecIsSound, FileInv, NEW o \in Objs, Serialize(o)
  PROVE  FileInv'
<1>1. phase # "writing" /\ tried' = Append(tried, o) /\ method' = method
  BY Zenon DEF Serialize
<1>2. CASE /\ Lower[method] = "cpp"
           /\ phase' = "writing" /\ file' = <<>> /\ rest' = Encoded(o, kVersion)
           /\ version' = kVersion
  BY Zenon, <1>1, <1>2, OpenStep
<1>3. CASE /\ Lower[method] = "qs"
           /\ \/ phase' = "ok" /\ file' = <<Foreign("qs", o)>>
              \/ phase' = "threw" /\ file' = <<Foreign("qs", Bad)>>
           /\ UNCHANGED <<rest, version>>
  BY Zenon, <1>1, <1>3, QsStep
<1>4. CASE /\ Lower[method] = "rmvl"
           /\ \E first \in {<<>>, <<Foreign("rmvl", Bad)>>, <<Foreign("rmvl", o)>>} :
                \/ phase' = "ok" /\ file' = file \o first \o <<Foreign("rmvl", o)>>
                \/ phase' = "threw" /\ file' = file \o first \o <<Foreign("rmvl", Bad)>>
           /\ UNCHANGED <<rest, version>>
  <2>1. PICK first \in {<<>>, <<Foreign("rmvl", Bad)>>, <<Foreign("rmvl", o)>>} :
                \/ phase' = "ok" /\ file' = file \o first \o <<Foreign("rmvl", o)>>
                \/ phase' = "threw" /\ file' = file \o first \o <<Foreign("rmvl", Bad)>>
    BY Zenon, <1>4
  <2>2. version' = version
    BY Zenon, <1>4
  <2>3. QED
    BY Zenon, <1>1, <1>4, <2>1, <2>2, RmvlStep
<1>5. CASE phase' = "threw" /\ UNCHANGED <<file, rest, version>>
  BY Zenon, <1>1, <1>5, RefusedStep
<1>6. QED
  BY Zenon, <1>2, <1>3, <1>4, <1>5 DEF Serialize

-----------------------------------------------------------------------------
(***************************************************************************)
(* What a reader finds.                                                    *)
(***************************************************************************)
\* A reader by name finds the whole objects of the file, and the "cpp" reader throws on it.
LEMMA ForeignReading ==
  ASSUME FileInv, NEW got \in Unserialize, got.ok, Lower[method] # "cpp"
  PROVE  /\ method \in {"qs", "RMVL"}
         /\ \E i \in DOMAIN file : got.val = file[i].is /\ file[i].is # Bad
<1>1. /\ Len(file) \in Nat /\ file = [j \in 1..Len(file) |-> file[j]]
      /\ \A j \in 1..Len(file) : Entry(file[j])
  BY Zenon DEF FileInv, ForeignInv
<1>2. DOMAIN file = 1..Len(file)
  BY Zenon, <1>1
<1>3. ~Bad.ok
  BY DEF Bad
<1>4. method \in {"qs", "RMVL"}
  <2>1. SUFFICES ASSUME method \notin {"qs", "RMVL"}
                 PROVE  FALSE
    OBVIOUS
  <2>2. got = Decoded(file)
    BY Zenon, <2>1 DEF Unserialize
  <2>3. ~HasUnit(file, "i")
    <3>1. CASE file = <<>>
      BY <3>1 DEF HasUnit
    <3>2. CASE file # <<>>
      <4>1. Head(file) = file[1]
        OBVIOUS
      <4>2. 1 \in 1..Len(file)
        <5>1. Len(file) # 0
          <6>1. ASSUME Len(file) = 0
                PROVE  file = <<>>
            <7>1. file = [j \in 1..0 |-> file[j]]
              BY Zenon, <1>1, <6>1
            <7>2. [j \in 1..0 |-> file[j]] = <<>>
              OBVIOUS
            <7>3. QED
              BY Zenon, <7>1, <7>2
          <6>2. QED
            BY Zenon, <3>2, <6>1
        <5>2. QED
          BY <1>1, <5>1
      <4>3. file[1].unit = "qs" \/ file[1].unit = "rmvl"
        BY Zenon, <1>1, <4>2 DEF Entry
      <4>4. Head(file).unit # "i"
        BY <4>1, <4>3
      <4>5. QED
        BY Zenon, <4>4 DEF HasUnit
    <3>3. QED
      BY Zenon, <3>1, <3>2
  <2>4. Decoded(file) = Bad
    BY Zenon, <2>3 DEF Decoded
  <2>5. QED
    BY Zenon, <1>3, <2>2, <2>4
<1>5. \E i \in DOMAIN file : file[i].is # Bad /\ got = Good(file[i].is, <<>>, 0)
  <2> DEFINE copies == {i \in DOMAIN file : file[i].unit = Lower[method]}
             whole == {i \in copies : file[i].is # Bad}
  <2>1. Unserialize = {Good(file[i].is, <<>>, 0) : i \in whole}
                        \union (IF whole = {} \/ whole # DOMAIN file THEN {Bad} ELSE {})
    BY Zenon, <1>4 DEF Unserialize
  <2>2. got # Bad
    BY Zenon, <1>3
  <2>3. \A i \in whole : i \in DOMAIN file /\ file[i].is # Bad
    BY Zenon
  <2> HIDE DEF copies, whole
  <2>4. got \in {Good(file[i].is, <<>>, 0) : i \in whole}
    BY <2>1, <2>2
  <2>5. QED
    BY Zenon, <2>3, <2>4
<1>6. \A x : Good(x, <<>>, 0).val = x
  BY DEF Good
<1>7. QED
  BY Zenon, <1>4, <1>5, <1>6

\* The "cpp" file is read by its own reader.
LEMMA CppReading ==
  ASSUME FileInv, Lower[method] = "cpp"
  PROVE  Unserialize = {Decoded(file)}
<1>1. method # "qs" /\ method # "RMVL"
  <2>1. method \in Methods
    BY Zenon DEF FileInv, TypeOK
  <2>2. QED
    BY <2>1, ObjectAssumption
<1>2. method \notin {"qs", "RMVL"}
  BY Zenon, <1>1
<1>3. QED
  BY Zenon, <1>2 DEF Unserialize

\* A part of a "cpp" file gives its object or nothing.
LEMMA PartReading ==
  ASSUME CodecIsSound, FileInv, NEW i, NEW k, IsPart(i, k)
  PROVE  /\ Decoded(file).ok =>
              k = Len(Encoded(tried[i], version)) /\ Decoded(file).val = Kept(tried[i], version)
         /\ k = Len(Encoded(tried[i], version)) /\ VectorsOf(tried[i]) < ProtectLimit => Decoded(file).ok
<1>1. /\ i \in DOMAIN tried /\ k \in 0..Len(Encoded(tried[i], version))
      /\ file = SubSeq(Encoded(tried[i], version), 1, k)
  BY Zenon DEF IsPart
<1>2. tried[i] \in Objs /\ version \in kMinReadVersion..kVersion /\ ~Unsupported(file)
  BY Zenon, <1>1 DEF FileInv, TypeOK
<1>3. CodecFits(tried[i], version)
  BY Zenon, <1>2 DEF CodecIsSound
<1>4. PICK o, t : o = tried[i] /\ t = file
  BY Zenon
<1>5. ~Unsupported(SubSeq(Encoded(o, version), 1, k))
  BY Zenon, <1>1, <1>2, <1>4
<1>6. LET got == Decoded(SubSeq(Encoded(o, version), 1, k))
      IN /\ got.ok => k = Len(Encoded(o, version)) /\ got.val = Kept(o, version)
         /\ k = Len(Encoded(o, version)) /\ VectorsOf(o) < ProtectLimit => got.ok
  BY Zenon, <1>1, <1>2, <1>3, <1>4, <1>5, DecodedPiece
<1>7. SubSeq(Encoded(o, version), 1, k) = file
  BY Zenon, <1>1, <1>4
<1>8. QED
  BY Zenon, <1>4, <1>6, <1>7

\* Nothing is read from an empty file.
LEMMA NothingRead == ~Decoded(<<>>).ok
<1>1. ~HasUnit(<<>>, "i")
  BY DEF HasUnit
<1>2. Decoded(<<>>) = Bad
  BY Zenon, <1>1 DEF Decoded
<1>3. QED
  BY <1>2 DEF Bad

\* In a state of the invariant a reader finds an object that was written, or throws.
LEMMA WholeInState ==
  ASSUME CodecIsSound, FileInv
  PROVE  WholeOrNothing
<1>1. SUFFICES ASSUME NEW got \in Unserialize, got.ok
               PROVE  \E i \in DOMAIN tried : got.val = Expected(tried[i])
  BY Zenon DEF WholeOrNothing
<1>2. CASE Lower[method] = "cpp"
  <2>1. got = Decoded(file)
    <3>1. Unserialize = {Decoded(file)}
      BY Zenon, <1>2, CppReading
    <3>2. QED
      BY Zenon, <1>1, <3>1
  <2>2. file # <<>>
    BY Zenon, <1>1, <2>1, NothingRead
  <2>3. PICK i, k : IsPart(i, k)
    BY Zenon, <1>2, <2>2 DEF FileInv, CppInv
  <2>4. Decoded(file).val = Kept(tried[i], version)
    BY Zenon, <1>1, <2>1, <2>3, PartReading
  <2>5. i \in DOMAIN tried
    BY Zenon, <2>3 DEF IsPart
  <2>6. QED
    BY Zenon, <1>2, <2>1, <2>4, <2>5 DEF Expected
<1>3. CASE Lower[method] # "cpp"
  <2>1. PICK j \in DOMAIN file : got.val = file[j].is /\ file[j].is # Bad
    BY Zenon, <1>1, <1>3, ForeignReading
  <2>2. Entry(file[j])
    <3>1. file = [m \in 1..Len(file) |-> file[m]] /\ \A m \in 1..Len(file) : Entry(file[m])
      BY Zenon, <1>3 DEF FileInv, ForeignInv
    <3>2. DOMAIN file = 1..Len(file)
      BY Zenon, <3>1
    <3>3. QED
      BY Zenon, <2>1, <3>1, <3>2
  <2>3. PICK i \in DOMAIN tried : file[j].is = tried[i]
    BY Zenon, <2>1, <2>2 DEF Entry
  <2>4. Expected(tried[i]) = tried[i]
    BY Zenon, <1>3 DEF Expected
  <2>5. QED
    BY Zenon, <2>1, <2>3, <2>4
<1>4. QED
  BY Zenon, <1>2, <1>3

\* A spelling the writer takes for qs or RMVL is one the reader takes for it too; "rmvl" is
\* RMVL to the writer only.
SpellingsKnown == \A m \in Methods : Lower[m] # "cpp" => m \in {"qs", "RMVL"}

\* A file that holds whole copies of one object gives that object.
LEMMA CopiesRead ==
  ASSUME NEW o, o # Bad, method \in {"qs", "RMVL"}, DOMAIN file # {},
         \A j \in DOMAIN file : file[j].unit = Lower[method] /\ file[j].is = o,
         NEW got \in Unserialize
  PROVE  got.ok /\ got.val = o
<1> DEFINE copies == {i \in DOMAIN file : file[i].unit = Lower[method]}
           whole == {i \in copies : file[i].is # Bad}
<1>1. Unserialize = {Good(file[i].is, <<>>, 0) : i \in whole}
                      \union (IF whole = {} \/ whole # DOMAIN file THEN {Bad} ELSE {})
  BY Zenon DEF Unserialize
<1>2. \A i \in DOMAIN file : i \in whole
  BY Zenon
<1>3. \A i \in whole : i \in DOMAIN file
  BY Zenon
<1> HIDE DEF copies, whole
<1>4. whole = DOMAIN file
  BY Zenon, <1>2, <1>3
<1>5. \E i \in whole : got = Good(file[i].is, <<>>, 0)
  BY <1>1, <1>4
<1>6. got = Good(o, <<>>, 0)
  BY Zenon, <1>3, <1>5
<1>7. QED
  BY <1>6 DEF Good

\* In a state of the invariant a file that is done gives the last object.
LEMMA WrittenInState ==
  ASSUME CodecIsSound, SpellingsKnown, FileInv
  PROVE  WrittenIsReadable
<1>1. SUFFICES ASSUME phase = "ok",
                      Lower[method] = "cpp" => VectorsOf(Last(tried)) < ProtectLimit,
                      Lower[method] = "rmvl" => \A i \in DOMAIN file : file[i].is = Last(tried),
                      NEW got \in Unserialize
               PROVE  got.ok /\ got.val = Expected(Last(tried))
  BY Zenon DEF WrittenIsReadable
<1>2. tried \in Seq(Objs) /\ Len(tried) > 0 /\ Last(tried) = tried[Len(tried)] /\ Last(tried) \in Objs
  <2>1. tried \in Seq(Objs) /\ Len(tried) > 0
    BY <1>1 DEF FileInv, TriedInv
  <2>2. Last(tried) = tried[Len(tried)]
    BY DEF Last
  <2>3. QED
    BY <2>1, <2>2
<1>3. phase # "absent" /\ phase # "writing" /\ ~(phase \notin {"writing", "ok"})
  BY <1>1
<1>4. CASE Lower[method] = "cpp"
  <2>1. got = Decoded(file)
    <3>1. Unserialize = {Decoded(file)}
      BY Zenon, <1>4, CppReading
    <3>2. QED
      BY Zenon, <1>1, <3>1
  <2>2. PICK i, k : IsPart(i, k)
    BY Zenon, <1>3, <1>4 DEF FileInv, CppInv
  <2>3. tried[i] = Last(tried) /\ k = Len(Encoded(tried[i], version))
    BY Zenon, <1>1, <1>2, <2>2 DEF IsPart
  <2>4. Decoded(file).ok
    BY Zenon, <1>1, <1>4, <2>2, <2>3, PartReading
  <2>5. Decoded(file).val = Kept(tried[i], version)
    BY Zenon, <2>2, <2>4, PartReading
  <2>6. QED
    BY Zenon, <1>4, <2>1, <2>3, <2>4, <2>5 DEF Expected
<1>5. CASE Lower[method] # "cpp"
  <2>1. method \in Methods /\ method \in {"qs", "RMVL"}
    BY Zenon, <1>5 DEF FileInv, TypeOK, SpellingsKnown
  <2>2. Lower[method] \in {"qs", "rmvl"}
    BY <2>1, ObjectAssumption
  <2>3. /\ Len(file) \in Nat /\ file = [j \in 1..Len(file) |-> file[j]]
        /\ \A j \in 1..Len(file) : Entry(file[j])
        /\ Len(file) > 0
        /\ Lower[method] = "qs" => file = <<Foreign("qs", tried[Len(tried)])>>
    BY Zenon, <1>1, <1>5 DEF FileInv, ForeignInv
  <2>4. DOMAIN file = 1..Len(file)
    BY Zenon, <2>3
  <2>5. DOMAIN file # {}
    BY <2>3, <2>4
  <2>6. \A j \in DOMAIN file : file[j].unit = Lower[method]
    BY Zenon, <2>3, <2>4 DEF Entry
  <2>7. \A j \in DOMAIN file : file[j].is = Last(tried)
    <3>1. CASE Lower[method] = "qs"
      <4>1. file = <<Foreign("qs", Last(tried))>>
        BY Zenon, <1>2, <2>3, <3>1
      <4>2. QED
        BY <4>1 DEF Foreign
    <3>2. CASE Lower[method] = "rmvl"
      BY Zenon, <1>1, <3>2
    <3>3. QED
      BY Zenon, <2>2, <3>1, <3>2
  <2>8. Last(tried) # Bad
    BY Zenon, <1>2, ObjectAssumption
  <2>9. got.ok /\ got.val = Last(tried)
    <3>1. PICK o : o = Last(tried)
      BY Zenon
    <3>2. QED
      BY Zenon, <1>1, <2>1, <2>5, <2>6, <2>7, <2>8, <3>1, CopiesRead
  <2>10. QED
    BY Zenon, <1>5, <2>9 DEF Expected
<1>6. QED
  BY Zenon, <1>4, <1>5

\* In a state of the invariant a file of an earlier version is read back.
LEMMA LegacyInState ==
  ASSUME CodecIsSound, FileInv
  PROVE  LegacyIsReadable
<1>1. SUFFICES ASSUME version < kVersion, VectorsOf(tried[1]) < ProtectLimit, NEW got \in Unserialize
               PROVE  got.ok /\ got.val = Kept(tried[1], version)
  BY Zenon DEF LegacyIsReadable
<1>2. /\ Lower[method] = "cpp" /\ phase # "writing" /\ Len(tried) > 0
      /\ file = Encoded(tried[1], version)
  BY Zenon, <1>1 DEF FileInv, LegacyInv
<1>3. got = Decoded(file)
  <2>1. Unserialize = {Decoded(file)}
    BY Zenon, <1>2, CppReading
  <2>2. QED
    BY Zenon, <1>1, <2>1
<1>4. 1 \in DOMAIN tried /\ tried[1] \in Objs
  BY <1>2 DEF FileInv, TriedInv
<1>5. version \in kMinReadVersion..kVersion /\ ~Unsupported(file)
  BY Zenon DEF FileInv, TypeOK
<1>6. CodecFits(tried[1], version)
  BY Zenon, <1>4, <1>5 DEF CodecIsSound
<1> DEFINE e == Encoded(tried[1], version)
<1>7. PICK S : e \in Seq(S)
  BY Zenon, <1>6, EncodedShape
<1> HIDE DEF e
<1>8. Len(e) \in 0..Len(e) /\ SubSeq(e, 1, Len(e)) = e
  <2>1. Split(e, Len(e), e, <<>>)
    BY Zenon, <1>7, Ends
  <2>2. QED
    BY Zenon, <2>1 DEF Split
<1>9. ~Unsupported(SubSeq(e, 1, Len(e)))
  BY Zenon, <1>2, <1>5, <1>8 DEF e
<1>10. PICK o : o = tried[1]
  BY Zenon
<1>11. LET all == Decoded(SubSeq(Encoded(o, version), 1, Len(Encoded(o, version))))
       IN all.ok /\ all.val = Kept(o, version)
  BY Zenon, <1>1, <1>5, <1>6, <1>8, <1>9, <1>10, DecodedPiece DEF e
<1>12. SubSeq(Encoded(o, version), 1, Len(Encoded(o, version))) = file
  BY Zenon, <1>2, <1>8, <1>10 DEF e
<1>13. QED
  BY Zenon, <1>3, <1>10, <1>11, <1>12

-----------------------------------------------------------------------------
(***************************************************************************)
(* Theorems.                                                               *)
(***************************************************************************)
\* After any attempts, flushes, failures and crashes the file is a part of what one attempt
\* writes ("cpp") or a list of whole and broken objects (qs, RMVL).
THEOREM FileInvariance ==
  ASSUME CodecIsSound
  PROVE  Spec => []FileInv
<1>1. Init => FileInv
  BY InitFileInv
<1>2. FileInv /\ [Next]_vars => FileInv'
  <2> SUFFICES ASSUME FileInv, [Next]_vars
               PROVE  FileInv'
    OBVIOUS
  <2>1. CASE \E o \in Objs : Serialize(o)
    BY Zenon, <2>1, SerializeStep
  <2>2. CASE Flush
    BY Zenon, <2>2, FlushStep
  <2>3. CASE WriteThrows
    BY Zenon, <2>3, WriteThrowsStep
  <2>4. CASE Close
    BY Zenon, <2>4, CloseStep
  <2>5. CASE Crash
    BY Zenon, <2>5, CrashStep
  <2>6. CASE UNCHANGED vars
    <3>1. UNCHANGED <<method, tried, phase, version, rest, file>>
      BY Zenon, <2>6 DEF vars
    <3>2. TypeOK' /\ TriedInv' /\ LegacyInv'
      BY Zenon, <3>1 DEF FileInv, TypeOK, TriedInv, LegacyInv, Unsupported
    <3>3. \A i, k : IsPart(i, k) => IsPart(i, k)'
      BY Zenon, <3>1 DEF IsPart
    <3>4. CppInv'
      BY Zenon, <3>1, <3>3 DEF FileInv, CppInv
    <3>5. \A u : Entry(u) => Entry(u)'
      BY Zenon, <3>1 DEF Entry
    <3>6. ForeignInv'
      BY Zenon, <3>1, <3>5 DEF FileInv, ForeignInv
    <3>7. QED
      BY Zenon, <3>2, <3>4, <3>6 DEF FileInv
  <2>7. QED
    BY Zenon, <2>1, <2>2, <2>3, <2>4, <2>5, <2>6 DEF Next
<1>3. QED
  BY <1>1, <1>2, PTL DEF Spec

\* The variables keep their types, and no unit is written that stands for an exception.
THEOREM FileTypeCorrect ==
  ASSUME CodecIsSound
  PROVE  Spec => []TypeOK
<1>1. FileInv => TypeOK
  BY DEF FileInv
<1>2. QED
  BY <1>1, FileInvariance, PTL

\* A reader, at whatever moment, throws or gives an object that was serialized to the file.
THEOREM ReadersFindWholeObjects ==
  ASSUME CodecIsSound
  PROVE  Spec => []WholeOrNothing
<1>1. FileInv => WholeOrNothing
  BY WholeInState
<1>2. QED
  BY <1>1, FileInvariance, PTL

\* A file that was written is read back as the object that was serialized last.
THEOREM WrittenFilesAreReadable ==
  ASSUME CodecIsSound, SpellingsKnown
  PROVE  Spec => []WrittenIsReadable
<1>1. FileInv => WrittenIsReadable
  BY WrittenInState
<1>2. QED
  BY <1>1, FileInvariance, PTL

\* A file of an earlier version stays readable until it is written again.
THEOREM LegacyFilesAreReadable ==
  ASSUME CodecIsSound
  PROVE  Spec => []LegacyIsReadable
<1>1. FileInv => LegacyIsReadable
  BY LegacyInState
<1>2. QED
  BY <1>1, FileInvariance, PTL
=============================================================================
