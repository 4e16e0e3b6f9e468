------------------------ MODULE TaskSubmissionProofs ------------------------
(***************************************************************************)
(* The master for every program, schedule and failure: its types, the      *)
(* files it shares with the workers, the parameter vectors, what wait_on   *)
(* hands out and what has been registered.                                 *)
(***************************************************************************)
EXTENDS TaskSubmission, FiniteSetTheorems, SequenceTheorems, WellFoundedInduction, TLAPS

-----------------------------------------------------------------------------
(***************************************************************************)
(* Lists.                                                                  *)
(***************************************************************************)
IsList(q) == \E S : q \in Seq(S)

\* What appending to a list does.
LEMMA Appended ==
  ASSUME NEW q, IsList(q), NEW e
  PROVE  /\ IsList(Append(q, e)) /\ Len(q) \in Nat /\ DOMAIN q = 1..Len(q)
         /\ Len(Append(q, e)) = Len(q) + 1 /\ DOMAIN Append(q, e) = 1..Len(q) + 1
         /\ \A i \in 1..Len(q) : Append(q, e)[i] = q[i]
         /\ Append(q, e)[Len(q) + 1] = e
<1>1. PICK S : q \in Seq(S)
  BY DEF IsList
<1>2. q \in Seq(S \union {e}) /\ e \in S \union {e}
  BY <1>1
<1>3. Append(q, e) \in Seq(S \union {e})
  BY <1>2
<1>4. IsList(Append(q, e))
  BY <1>3 DEF IsList
<1>5. QED
  BY <1>2, <1>3, <1>4

\* A function over an initial interval is a list of its length.
LEMMA Listed ==
  ASSUME NEW m \in Nat, NEW q, q = [i \in 1..m |-> q[i]]
  PROVE  IsList(q) /\ Len(q) = m /\ DOMAIN q = 1..m
<1> DEFINE S == {q[i] : i \in 1..m}
<1>1. q \in [1..m -> S]
  <2>1. [i \in 1..m |-> q[i]] \in [1..m -> S]
    OBVIOUS
  <2>2. QED
    BY <2>1, Zenon
<1>2. q \in Seq(S)
  BY <1>1
<1>3. IsList(q)
  BY <1>2 DEF IsList
<1> HIDE DEF S
<1>4. Len(q) \in Nat /\ DOMAIN q = 1..Len(q) /\ DOMAIN q = 1..m
  BY <1>1, <1>2
<1>5. Len(q) = m
  <2>1. 1..Len(q) = 1..m
    BY <1>4
  <2>2. QED
    BY <2>1, <1>4
<1>6. QED
  BY <1>3, <1>4, <1>5

\* A list has a length, and is the function over its positions.
LEMMA ListShape ==
  ASSUME NEW q, IsList(q)
  PROVE  Len(q) \in Nat /\ DOMAIN q = 1..Len(q) /\ q = [i \in 1..Len(q) |-> q[i]]
<1>1. PICK S : q \in Seq(S)
  BY DEF IsList
<1>2. QED
  BY <1>1

\* What joining two lists does.
LEMMA Joined ==
  ASSUME NEW p, IsList(p), NEW q, IsList(q)
  PROVE  /\ IsList(p \o q) /\ Len(p) \in Nat /\ Len(q) \in Nat /\ Len(p \o q) = Len(p) + Len(q)
         /\ DOMAIN (p \o q) = 1..(Len(p) + Len(q))
         /\ \A i \in 1..Len(p) : (p \o q)[i] = p[i]
         /\ Len(q) = 1 => (p \o q)[Len(p) + 1] = q[1]
<1>1. PICK S, T : p \in Seq(S) /\ q \in Seq(T)
  BY DEF IsList
<1>2. p \in Seq(S \union T) /\ q \in Seq(S \union T)
  BY <1>1
<1>3. p \o q \in Seq(S \union T)
  BY <1>2
<1>4. IsList(p \o q)
  BY <1>3 DEF IsList
<1>5. QED
  BY <1>2, <1>3, <1>4

\* The position of k among the members of keep.
Rank(keep, k) == Cardinality({j \in keep : j <= k})

\* The elements at some places of a list are a list.
LEMMA SublistShape ==
  ASSUME NEW q, IsList(q), NEW keep, keep \subseteq DOMAIN q
  PROVE  /\ IsFiniteSet(keep) /\ Cardinality(keep) \in Nat
         /\ IsList(Sublist(q, keep)) /\ Len(Sublist(q, keep)) = Cardinality(keep)
         /\ DOMAIN Sublist(q, keep) = 1..Cardinality(keep)
         /\ \A i \in 1..Cardinality(keep) : Sublist(q, keep)[i] = q[CHOOSE k \in keep : Rank(keep, k) = i]
<1>1. Len(q) \in Nat /\ keep \subseteq 1..Len(q)
  BY ListShape
<1>2. IsFiniteSet(1..Len(q))
  BY <1>1, FS_Interval
<1>3. IsFiniteSet(keep) /\ Cardinality(keep) \in Nat
  BY <1>1, <1>2, FS_Subset, FS_CardinalityType
<1> DEFINE w == Sublist(q, keep)
           c == Cardinality(keep)
<1>4. w = [i \in 1..c |-> q[CHOOSE k \in keep : Rank(keep, k) = i]]
  BY DEF Sublist, Rank
<1> HIDE DEF w, c
<1>5. w = [i \in 1..c |-> w[i]]
  BY <1>4
<1>6. c \in Nat
  BY <1>3 DEF c
<1>7. IsList(w) /\ Len(w) = c /\ DOMAIN w = 1..c
  BY <1>5, <1>6, Listed
<1>8. QED
  BY <1>3, <1>4, <1>7 DEF w, c

\* Induction over the natural numbers, for the members of a set.
LEMMA SetInduction ==
  ASSUME NEW S, 0 \in S, \A n \in Nat : n \in S => n + 1 \in S
  PROVE  Nat \subseteq S
<1> DEFINE T == Nat \ S
           R == OpToRel(<, Nat)
<1>1. SUFFICES ASSUME T # {} PROVE FALSE
  OBVIOUS
<1>2. IsWellFoundedOn(R, Nat)
  BY Zenon, NatLessThanWellFounded
<1>3. T \subseteq Nat
  OBVIOUS
<1> HIDE DEF R
<1>4. PICK x \in T : \A y \in T : ~(<<y, x>> \in R)
  BY <1>1, <1>2, <1>3, WFMin
<1>5. x # 0 /\ x - 1 \in Nat
  BY <1>4
<1>6. x - 1 \in T
  BY <1>4, <1>5
<1>7. <<x - 1, x>> \in R
  BY <1>5, <1>4 DEF R, OpToRel
<1>8. QED
  BY <1>4, <1>6, <1>7

\* How the rank grows.
LEMMA RankStep ==
  ASSUME NEW m \in Nat, NEW keep, keep \subseteq 1..m
  PROVE  /\ Rank(keep, 0) = 0 /\ Rank(keep, m) = Cardinality(keep)
         /\ \A k \in Nat : Rank(keep, k) \in Nat
         /\ \A k \in Nat : Rank(keep, k + 1) = Rank(keep, k) + (IF k + 1 \in keep THEN 1 ELSE 0)
<1>0. \A j \in keep : j \in Nat /\ 1 <= j /\ j <= m
  OBVIOUS
<1>1. IsFiniteSet(keep)
  BY FS_Interval, FS_Subset, 1 \in Int, m \in Int
<1>2. {j \in keep : j <= 0} = {} /\ {j \in keep : j <= m} = keep
  <2>1. \A j \in keep : ~(j <= 0) /\ j <= m
    BY <1>0
  <2>2. QED
    BY Zenon, <2>1
<1>3. Rank(keep, 0) = 0 /\ Rank(keep, m) = Cardinality(keep)
  BY <1>2, FS_EmptySet DEF Rank
<1>4. ASSUME NEW k \in Nat
      PROVE  IsFiniteSet({j \in keep : j <= k})
  BY <1>1, FS_Subset
<1>5. ASSUME NEW k \in Nat
      PROVE  Rank(keep, k + 1) = Rank(keep, k) + (IF k + 1 \in keep THEN 1 ELSE 0)
  <2> DEFINE A == {j \in keep : j <= k}
             B == {j \in keep : j <= k + 1}
  <2>1. CASE k + 1 \in keep
    <3>1. B = A \union {k + 1} /\ k + 1 \notin A
      <4>1. /\ \A j \in keep : j <= k + 1 <=> j <= k \/ j = k + 1
            /\ ~(k + 1 <= k)
        BY <1>0
      <4>2. QED
        BY Zenon, <2>1, <4>1
    <3>2. Cardinality(A \union {k + 1}) = Cardinality(A) + 1
      BY <3>1, <1>4, FS_AddElement
    <3>3. QED
      BY <2>1, <3>1, <3>2 DEF Rank
  <2>2. CASE k + 1 \notin keep
    <3>1. B = A
      <4>1. \A j \in keep : j <= k + 1 <=> j <= k \/ j = k + 1
        BY <1>0
      <4>2. QED
        BY Zenon, <2>2, <4>1
    <3>2. Cardinality(A) \in Nat
      BY <1>4, FS_CardinalityType
    <3>3. QED
      BY <2>2, <3>1, <3>2 DEF Rank
  <2>3. QED
    BY <2>1, <2>2
<1>6. \A k \in Nat : Rank(keep, k) \in Nat
  BY <1>4, FS_CardinalityType DEF Rank
<1>7. QED
  BY <1>3, <1>5, <1>6

\* Every rank up to the size of a set is the rank of exactly one of its members.
LEMMA RankMember ==
  ASSUME NEW m \in Nat, NEW keep, keep \subseteq 1..m
  PROVE  /\ \A i \in 1..Cardinality(keep) : \E k \in keep : Rank(keep, k) = i
         /\ \A k \in keep : Rank(keep, k) \in 1..Cardinality(keep)
         /\ \A k, l \in keep : Rank(keep, k) = Rank(keep, l) => k = l
<1>1. /\ Rank(keep, 0) = 0 /\ Rank(keep, m) = Cardinality(keep)
      /\ \A k \in Nat : Rank(keep, k) \in Nat
      /\ \A k \in Nat : Rank(keep, k + 1) = Rank(keep, k) + (IF k + 1 \in keep THEN 1 ELSE 0)
  BY RankStep
<1>2. \A k, l \in Nat : k <= l => Rank(keep, k) <= Rank(keep, l)
  <2> SUFFICES ASSUME NEW k \in Nat, NEW l \in Nat, k <= l
               PROVE  Rank(keep, k) <= Rank(keep, l)
    OBVIOUS
  <2>1. IsFiniteSet(keep)
    BY FS_Interval, FS_Subset, 1 \in Int, m \in Int
  <2>2. IsFiniteSet({j \in keep : j <= l})
    BY <2>1, FS_Subset
  <2>3. \A j \in keep : j <= k => j <= l
    OBVIOUS
  <2>4. {j \in keep : j <= k} \subseteq {j \in keep : j <= l}
    BY Zenon, <2>3
  <2>5. QED
    BY <2>2, <2>4, FS_Subset DEF Rank
<1>3. \A k \in keep : k - 1 \in Nat /\ Rank(keep, k) = Rank(keep, k - 1) + 1
  <2> SUFFICES ASSUME NEW k \in keep
               PROVE  k - 1 \in Nat /\ Rank(keep, k) = Rank(keep, k - 1) + 1
    OBVIOUS
  <2>1. k - 1 \in Nat /\ (k - 1) + 1 = k
    OBVIOUS
  <2>2. QED
    BY <2>1, <1>1
<1>4. \A k \in keep : Rank(keep, k) \in 1..Cardinality(keep)
  <2> SUFFICES ASSUME NEW k \in keep
               PROVE  Rank(keep, k) \in 1..Cardinality(keep)
    OBVIOUS
  <2>1. k \in Nat /\ k <= m
    OBVIOUS
  <2>2. QED
    BY <2>1, <1>1, <1>2, <1>3
<1>5. \A k, l \in keep : k < l => Rank(keep, k) < Rank(keep, l)
  <2> SUFFICES ASSUME NEW k \in keep, NEW l \in keep, k < l
               PROVE  Rank(keep, k) < Rank(keep, l)
    OBVIOUS
  <2>1. k \in Nat /\ l - 1 \in Nat /\ k <= l - 1
    OBVIOUS
  <2>2. QED
    BY <2>1, <1>1, <1>2, <1>3
<1>6. \A k, l \in keep : Rank(keep, k) = Rank(keep, l) => k = l
  <2> SUFFICES ASSUME NEW k \in keep, NEW l \in keep, Rank(keep, k) = Rank(keep, l)
               PROVE  k = l
    OBVIOUS
  <2>1. k \in Nat /\ l \in Nat /\ Rank(keep, k) \in Nat
    BY <1>1
  <2>2. QED
    BY <2>1, <1>5
<1> DEFINE S == {n \in Nat : \A i \in 1..Rank(keep, n) : \E k \in keep : Rank(keep, k) = i}
<1>7. 0 \in S
  BY <1>1
<1>8. ASSUME NEW n \in Nat, n \in S
      PROVE  n + 1 \in S
  <2> SUFFICES ASSUME NEW i \in 1..Rank(keep, n + 1)
               PROVE  \E k \in keep : Rank(keep, k) = i
    OBVIOUS
  <2>1. Rank(keep, n) \in Nat /\ Rank(keep, n + 1) = Rank(keep, n) + (IF n + 1 \in keep THEN 1 ELSE 0)
    BY <1>1
  <2>2. CASE i \in 1..Rank(keep, n)
    BY <2>2, <1>8
  <2>3. CASE n + 1 \in keep /\ i = Rank(keep, n + 1)
    BY <2>3
  <2>4. QED
    BY <2>1, <2>2, <2>3
<1>9. m \in S
  <2> HIDE DEF S
  <2>1. Nat \subseteq S
    BY <1>7, <1>8, SetInduction
  <2>2. QED
    BY <2>1
<1>10. QED
  BY <1>1, <1>4, <1>6, <1>9

\* The i-th element is the one of rank i, and every element that is kept has its place.
LEMMA SublistElements ==
  ASSUME NEW q, IsList(q), NEW keep, keep \subseteq DOMAIN q
  PROVE  /\ \A k \in keep : Rank(keep, k) \in DOMAIN Sublist(q, keep) /\ Sublist(q, keep)[Rank(keep, k)] = q[k]
         /\ \A i \in DOMAIN Sublist(q, keep) : \E k \in keep : Rank(keep, k) = i /\ Sublist(q, keep)[i] = q[k]
<1>1. Len(q) \in Nat /\ keep \subseteq 1..Len(q)
  BY ListShape
<1>2. /\ \A i \in 1..Cardinality(keep) : \E k \in keep : Rank(keep, k) = i
      /\ \A k \in keep : Rank(keep, k) \in 1..Cardinality(keep)
      /\ \A k, l \in keep : Rank(keep, k) = Rank(keep, l) => k = l
  BY <1>1, RankMember
<1>3. /\ DOMAIN Sublist(q, keep) = 1..Cardinality(keep)
      /\ \A i \in 1..Cardinality(keep) : Sublist(q, keep)[i] = q[CHOOSE k \in keep : Rank(keep, k) = i]
  BY SublistShape
<1>4. \A k \in keep : Sublist(q, keep)[Rank(keep, k)] = q[k]
  <2> SUFFICES ASSUME NEW k \in keep
               PROVE  Sublist(q, keep)[Rank(keep, k)] = q[k]
    OBVIOUS
  <2>1. PICK i \in 1..Cardinality(keep) : i = Rank(keep, k)
    BY <1>2
  <2>2. \A l \in keep : Rank(keep, l) = i <=> l = k
    BY <2>1, <1>2
  <2>3. (CHOOSE l \in keep : Rank(keep, l) = i) = k
    BY <2>2
  <2>4. QED
    BY <2>1, <2>3, <1>3
<1>5. QED
  BY <1>2, <1>3, <1>4

-----------------------------------------------------------------------------
(***************************************************************************)
(* Matching arguments to formals.                                          *)
(***************************************************************************)
\* The loop over the formals has a value after every round, made from the one before.
LEMMA MatchRounds ==
  ASSUME NEW values
  PROVE  /\ MatchLoop(values)[0] = [args |-> FormalArguments, k |-> 1]
         /\ \A i \in 1..Len(Formals) :
              MatchLoop(values)[i] = MatchFormal(values, MatchLoop(values)[i - 1], i)
<1> DEFINE first == [args |-> FormalArguments, k |-> 1]
           round(acc, i) == IF i = 0 THEN first ELSE MatchFormal(values, acc[i - 1], i)
           S == {n \in Nat : \E f : f = [i \in 0..n |-> round(f, i)]}
<1>1. 0 \in S
  <2> DEFINE f == [i \in 0..0 |-> first]
  <2>1. \A i \in 0..0 : i = 0
    OBVIOUS
  <2>2. f = [i \in 0..0 |-> round(f, i)]
    BY <2>1, Zenon
  <2>3. QED
    BY <2>2
<1>2. ASSUME NEW n \in Nat, n \in S
      PROVE  n + 1 \in S
  <2>1. PICK f : f = [i \in 0..n |-> round(f, i)]
    BY <1>2
  <2> DEFINE g == [i \in 0..(n + 1) |-> IF i = n + 1 THEN MatchFormal(values, f[n], n + 1) ELSE f[i]]
  <2>2. ASSUME NEW i \in 0..(n + 1)
        PROVE  g[i] = round(g, i)
    <3>1. CASE i = n + 1
      <4>1. i # 0 /\ i - 1 = n /\ n \in 0..(n + 1) /\ n # n + 1
        BY <3>1
      <4>2. g[n] = f[n]
        BY <4>1
      <4>3. g[i] = MatchFormal(values, f[n], n + 1)
        BY <3>1
      <4> HIDE DEF g
      <4>4. QED
        BY <3>1, <4>1, <4>2, <4>3
    <3>2. CASE i # n + 1 /\ i # 0
      <4>1. i \in 0..n /\ i - 1 \in 0..(n + 1) /\ i - 1 # n + 1
        BY <3>2
      <4>2. f[i] = round(f, i)
        BY <2>1, <4>1, Zenon
      <4>3. g[i] = f[i] /\ g[i - 1] = f[i - 1]
        BY <3>2, <4>1
      <4> HIDE DEF g
      <4>4. QED
        BY <3>2, <4>2, <4>3
    <3>3. CASE i = 0
      <4>1. i \in 0..n /\ i # n + 1
        BY <3>3
      <4>2. f[i] = round(f, i)
        BY <2>1, <4>1, Zenon
      <4>3. g[i] = f[i]
        BY <4>1
      <4> HIDE DEF g
      <4>4. QED
        BY <3>3, <4>2, <4>3
    <3>4. QED
      BY <3>1, <3>2, <3>3
  <2>3. g = [i \in 0..(n + 1) |-> round(g, i)]
    <3>1. g = [i \in 0..(n + 1) |-> g[i]]
      OBVIOUS
    <3> HIDE DEF g
    <3>2. QED
      BY <3>1, <2>2, Zenon
  <2>4. n + 1 \in Nat
    OBVIOUS
  <2> HIDE DEF g, round
  <2>5. QED
    BY <2>3, <2>4
<1>3. Len(Formals) \in S
  <2>1. Len(Formals) \in Nat
    BY SubmissionAssumption
  <2> HIDE DEF S
  <2>2. QED
    BY <2>1, <1>1, <1>2, SetInduction
<1>4. \E f : f = [i \in 0..Len(Formals) |-> round(f, i)]
  BY <1>3
<1>5. MatchLoop(values) = CHOOSE f : f = [i \in 0..Len(Formals) |-> round(f, i)]
  BY Zenon DEF MatchLoop
<1> DEFINE loop == MatchLoop(values)
<1> HIDE DEF round, S, loop
<1>6. loop = [i \in 0..Len(Formals) |-> round(loop, i)]
  BY <1>4, <1>5, Zenon DEF loop
<1>7. \A i \in 0..Len(Formals) : loop[i] = round(loop, i)
  BY <1>6, Zenon
<1>8. 0 \in 0..Len(Formals) /\ \A i \in 1..Len(Formals) : i \in 0..Len(Formals) /\ i # 0
  BY SubmissionAssumption
<1>9. QED
  BY <1>7, <1>8, Zenon DEF round, loop

\* The kind E of elements can hold the value v.
Holds(E, v) == [name |-> "", value |-> v] \in E /\ \A e \in E : [e EXCEPT !.value = v] \in E

\* An assignment leaves a list of elements of the same kind, not longer than the formals.
LEMMA AssignShape ==
  ASSUME NEW E, NEW v, Holds(E, v),
         NEW m \in Nat, NEW i \in 1..m, NEW args \in Seq(E), Len(args) <= m
  PROVE  Assign(args, i, v) \in Seq(E) /\ Len(Assign(args, i, v)) <= m
<1>1. Len(args) \in Nat /\ DOMAIN args = 1..Len(args) /\ args \in [1..Len(args) -> E]
  OBVIOUS
<1>2. CASE v.class = "NULL"
  <2>1. CASE i <= Len(args)
    <3>1. SubSeq(args, 1, i - 1) \in Seq(E) /\ Len(SubSeq(args, 1, i - 1)) = i - 1
      <4>1. i - 1 \in Nat /\ \A j \in 1..(i - 1) : args[j] \in E
        BY <2>1, <1>1
      <4>2. QED
        BY <4>1, SubSeqProperties, 1 \in Int
    <3>2. SubSeq(args, i + 1, Len(args)) \in Seq(E) /\ Len(SubSeq(args, i + 1, Len(args))) = Len(args) - i
      <4>1. i + 1 \in Int /\ Len(args) \in Int /\ \A j \in (i + 1)..Len(args) : args[j] \in E
        BY <2>1, <1>1
      <4> DEFINE l == Len(args)
                 b == i + 1
      <4>2. /\ SubSeq(args, b, l) \in Seq(E)
            /\ Len(SubSeq(args, b, l)) = IF b <= l THEN l - b + 1 ELSE 0
        <5> HIDE DEF l, b
        <5>1. b \in Int /\ l \in Int /\ \A j \in b..l : args[j] \in E
          BY <4>1 DEF l, b
        <5>2. QED
          BY <5>1, SubSeqProperties
      <4> HIDE DEF l
      <4>3. l \in Nat /\ i \in Nat /\ i <= l
        BY <2>1, <1>1 DEF l
      <4>4. (IF i + 1 <= l THEN l - (i + 1) + 1 ELSE 0) = l - i
        BY <4>3
      <4>5. QED
        BY <4>2, <4>4 DEF l
    <3>3. RemoveAt(args, i) \in Seq(E) /\ Len(RemoveAt(args, i)) = Len(args) - 1
      <4> DEFINE p == SubSeq(args, 1, i - 1)
                 q == SubSeq(args, i + 1, Len(args))
      <4>1. RemoveAt(args, i) = p \o q
        BY DEF RemoveAt
      <4>2. p \in Seq(E) /\ q \in Seq(E) /\ Len(p) = i - 1 /\ Len(q) = Len(args) - i
        BY <3>1, <3>2
      <4> HIDE DEF p, q
      <4>3. p \o q \in Seq(E) /\ Len(p \o q) = Len(p) + Len(q)
        BY <4>2
      <4>4. QED
        BY <4>1, <4>2, <4>3, <1>1
    <3>4. Assign(args, i, v) = RemoveAt(args, i)
      BY <1>2, <2>1 DEF Assign
    <3>5. QED
      BY <3>3, <3>4, <1>1
  <2>2. CASE ~(i <= Len(args))
    <3>1. Assign(args, i, v) = args
      BY <1>2, <2>2 DEF Assign
    <3>2. QED
      BY <3>1
  <2>3. QED
    BY <2>1, <2>2
<1>3. CASE v.class # "NULL" /\ i <= Len(args)
  <2>1. args[i] \in E
    BY <1>1, <1>3
  <2>2. [args[i] EXCEPT !.value = v] \in E
    BY Zenon, <2>1 DEF Holds
  <2>3. Assign(args, i, v) = [args EXCEPT ![i] = [args[i] EXCEPT !.value = v]]
    <3>1. v.class # "NULL" /\ i <= Len(args) /\ ~(i > Len(args))
      BY <1>1, <1>3
    <3>2. Assign(args, i, v) = [args EXCEPT ![i].value = v]
      BY Zenon, <3>1 DEF Assign
    <3>3. QED
      BY <3>2
  <2>4. PICK e \in E : e = [args[i] EXCEPT !.value = v]
    BY Zenon, <2>2
  <2>5. Assign(args, i, v) = [args EXCEPT ![i] = e]
    BY <2>3, <2>4
  <2>6. [args EXCEPT ![i] = e] \in Seq(E) /\ Len([args EXCEPT ![i] = e]) = Len(args)
    BY <1>1, <1>3, ExceptSeq
  <2>7. QED
    BY <2>5, <2>6
<1>4. CASE v.class # "NULL" /\ i > Len(args)
  <2>1. PICK e \in E : e = [name |-> "", value |-> v]
    BY Zenon DEF Holds
  <2>2. ~(i <= Len(args))
    BY <1>1, <1>4
  <2>3. Assign(args, i, v) = Append(args, e)
    BY Zenon, <1>4, <2>1, <2>2 DEF Assign
  <2>4. Append(args, e) \in Seq(E) /\ Len(Append(args, e)) = Len(args) + 1
    OBVIOUS
  <2>5. QED
    BY <2>3, <2>4, <1>1, <1>4
<1>5. QED
  BY <1>1, <1>2, <1>3, <1>4

\* The unnamed values of an argument list, in their order.
UnnamedValues(values) == Sublist(values, Named(values, ""))

\* The unnamed values are values of the call, each in its place.
LEMMA UnnamedFacts ==
  ASSUME NEW values, IsList(values)
  PROVE  /\ IsList(UnnamedValues(values)) /\ Len(UnnamedValues(values)) \in Nat
         /\ DOMAIN UnnamedValues(values) = 1..Len(UnnamedValues(values))
         /\ Len(UnnamedValues(values)) = Cardinality(Named(values, ""))
         /\ \A k \in 1..Len(UnnamedValues(values)) :
              \E j \in Named(values, "") : Rank(Named(values, ""), j) = k /\ UnnamedValues(values)[k] = values[j]
         /\ \A j \in Named(values, "") :
              /\ Rank(Named(values, ""), j) \in 1..Len(UnnamedValues(values))
              /\ UnnamedValues(values)[Rank(Named(values, ""), j)] = values[j]
<1> DEFINE keep == Named(values, "")
<1>1. keep \subseteq DOMAIN values
  BY DEF Named
<1> HIDE DEF keep
<1>2. /\ Cardinality(keep) \in Nat /\ IsList(Sublist(values, keep))
      /\ Len(Sublist(values, keep)) = Cardinality(keep)
      /\ DOMAIN Sublist(values, keep) = 1..Cardinality(keep)
  BY <1>1, SublistShape
<1>3. /\ \A k \in keep : Rank(keep, k) \in DOMAIN Sublist(values, keep) /\ Sublist(values, keep)[Rank(keep, k)] = values[k]
      /\ \A i \in DOMAIN Sublist(values, keep) : \E k \in keep : Rank(keep, k) = i /\ Sublist(values, keep)[i] = values[k]
  BY <1>1, SublistElements
<1>4. UnnamedValues(values) = Sublist(values, keep)
  BY DEF UnnamedValues, keep
<1>5. QED
  BY <1>2, <1>3, <1>4, Zenon DEF keep

\* A round of the loop assigns a value of the call, or changes nothing.
RoundOf(values, i, a, k) ==
  \/ /\ Named(values, Formals[i]) # {}
     /\ \E j \in Named(values, Formals[i]) :
          /\ j = (CHOOSE l \in Named(values, Formals[i]) : TRUE)
          /\ MatchFormal(values, [args |-> a, k |-> k], i) = [args |-> Assign(a, i, values[j].value), k |-> k]
  \/ /\ Named(values, Formals[i]) = {} /\ k \in 1..Len(UnnamedValues(values))
     /\ \E j \in Named(values, "") :
          /\ values[j] = UnnamedValues(values)[k]
          /\ MatchFormal(values, [args |-> a, k |-> k], i) = [args |-> Assign(a, i, values[j].value), k |-> k + 1]
  \/ /\ Named(values, Formals[i]) = {} /\ k > Len(UnnamedValues(values))
     /\ MatchFormal(values, [args |-> a, k |-> k], i) = [args |-> a, k |-> k]

\* Every round is such a round.
LEMMA RoundKinds ==
  ASSUME NEW values, IsList(values), NEW i, NEW a, NEW k \in Nat \ {0}
  PROVE  RoundOf(values, i, a, k)
<1> DEFINE acc == [args |-> a, k |-> k]
           named == Named(values, Formals[i])
           unnamed == UnnamedValues(values)
<1>1. MatchFormal(values, acc, i) =
        CASE named # {} -> [acc EXCEPT !.args = Assign(@, i, values[CHOOSE l \in named : TRUE].value)]
          [] named = {} /\ acc.k <= Len(unnamed) ->
               [args |-> Assign(acc.args, i, unnamed[acc.k].value), k |-> acc.k + 1]
          [] OTHER -> acc
  BY Zenon DEF MatchFormal, UnnamedValues
<1>2. /\ Len(unnamed) \in Nat
      /\ \A l \in 1..Len(unnamed) : \E j \in Named(values, "") : unnamed[l] = values[j]
  BY UnnamedFacts, Zenon
<1>9. acc.k = k /\ acc.args = a /\ \A x : [acc EXCEPT !.args = x] = [args |-> x, k |-> k]
  OBVIOUS
<1> HIDE DEF acc, named, unnamed, RoundOf
<1>3. \A l \in Nat : k \in 1..l \/ k > l
  OBVIOUS
<1>4. \A l \in Nat : (k \in 1..l => k <= l) /\ (k > l => ~(k <= l))
  OBVIOUS
<1>5. CASE named # {}
  <2>1. PICK j \in named : j = (CHOOSE l \in named : TRUE)
    BY <1>5
  <2>2. MatchFormal(values, acc, i) = [args |-> Assign(a, i, values[j].value), k |-> k]
    BY Zenon, <1>1, <1>9, <1>5, <2>1
  <2>3. QED
    BY Zenon, <1>5, <2>1, <2>2 DEF acc, named, RoundOf
<1>6. CASE named = {} /\ k \in 1..Len(unnamed)
  <2>1. PICK j \in Named(values, "") : unnamed[k] = values[j]
    BY Zenon, <1>2, <1>6
  <2>2. MatchFormal(values, acc, i) = [args |-> Assign(a, i, values[j].value), k |-> k + 1]
    BY Zenon, <1>1, <1>9, <1>2, <1>4, <1>6, <2>1
  <2>3. QED
    BY Zenon, <1>6, <2>1, <2>2 DEF acc, named, unnamed, RoundOf
<1>7. CASE named = {} /\ k > Len(unnamed)
  <2>1. MatchFormal(values, acc, i) = acc
    BY Zenon, <1>1, <1>9, <1>2, <1>4, <1>7
  <2>2. QED
    BY Zenon, <1>7, <2>1 DEF acc, named, unnamed, RoundOf
<1>8. QED
  BY Zenon, <1>2, <1>3, <1>5, <1>6, <1>7

\* Whatever the loop deletes and appends, it leaves a list of values of the call and of
\* formals(f), not longer than the formals.
LEMMA MatchedList ==
  ASSUME NEW values, IsList(values), NEW E, \A j \in DOMAIN values : Holds(E, values[j].value),
         FormalArguments \in Seq(E)
  PROVE  LET args == MatchLoop(values)[Len(Formals)].args
         IN args \in Seq(E) /\ Len(args) <= Len(Formals)
<1> DEFINE N == Len(Formals)
           loop == MatchLoop(values)
           reached(n) == \E a \in Seq(E), k \in Nat \ {0} : loop[n] = [args |-> a, k |-> k] /\ Len(a) <= N
           S == {n \in Nat : n <= N => reached(n)}
<1>1. N \in Nat
  BY SubmissionAssumption
<1>2. loop[0] = [args |-> FormalArguments, k |-> 1]
  BY MatchRounds
<1>3. \A i \in 1..N : loop[i] = MatchFormal(values, loop[i - 1], i)
  BY MatchRounds
<1>4. Len(FormalArguments) = N
  BY <1>1, Listed DEF FormalArguments, Positions
<1> HIDE DEF N, loop
<1>5. 0 \in S
  <2>1. Len(FormalArguments) <= N /\ 1 \in Nat \ {0}
    BY <1>1, <1>4
  <2>2. reached(0)
    BY Zenon, <1>2, <2>1
  <2> HIDE DEF reached
  <2>3. QED
    BY <2>2
<1>6. ASSUME NEW n \in Nat, n \in S
      PROVE  n + 1 \in S
  <2> SUFFICES ASSUME n + 1 <= N
               PROVE  reached(n + 1)
    <3> HIDE DEF reached
    <3> QED OBVIOUS
  <2> DEFINE i == n + 1
  <2>1. n <= N /\ i \in 1..N /\ i - 1 = n
    BY <1>1
  <2>2. PICK a \in Seq(E), k \in Nat \ {0} : loop[n] = [args |-> a, k |-> k] /\ Len(a) <= N
    <3>1. reached(n)
      <4> HIDE DEF reached
      <4> QED BY <1>6, <2>1
    <3>2. QED
      BY Zenon, <3>1
  <2>3. loop[i] = MatchFormal(values, [args |-> a, k |-> k], i)
    BY Zenon, <1>3, <2>1, <2>2
  <2> HIDE DEF i, S
  <2>4. ASSUME NEW j \in DOMAIN values
        PROVE  Assign(a, i, values[j].value) \in Seq(E) /\ Len(Assign(a, i, values[j].value)) <= N
    <3>1. PICK v : v = values[j].value
      OBVIOUS
    <3>2. Holds(E, v)
      BY Zenon, <3>1
    <3>3. QED
      BY <1>1, <2>1, <2>2, <3>1, <3>2, AssignShape
  <2>5. k + 1 \in Nat \ {0}
    OBVIOUS
  <2>6. \A x : Named(values, x) \subseteq DOMAIN values
    BY DEF Named
  <2>7. \/ \E j \in DOMAIN values : loop[i] = [args |-> Assign(a, i, values[j].value), k |-> k]
        \/ \E j \in DOMAIN values : loop[i] = [args |-> Assign(a, i, values[j].value), k |-> k + 1]
        \/ loop[i] = [args |-> a, k |-> k]
    <3>1. RoundOf(values, i, a, k)
      BY RoundKinds
    <3>2. QED
      BY Zenon, <2>3, <2>6, <3>1 DEF RoundOf
  <2>8. QED
    <3>1. k \in Nat \ {0}
      OBVIOUS
    <3>2. reached(i)
      BY Zenon, <2>2, <2>4, <2>5, <2>7, <3>1
    <3>3. QED
      BY Zenon, <3>2 DEF i
<1>7. N \in S
  <2> HIDE DEF S
  <2> QED BY <1>1, <1>5, <1>6, SetInduction
<1>8. PICK a \in Seq(E), k \in Nat \ {0} : loop[N] = [args |-> a, k |-> k] /\ Len(a) <= N
  <2>1. reached(N)
    <3> HIDE DEF reached
    <3> QED BY <1>1, <1>7
  <2>2. QED
    BY Zenon, <2>1
<1>9. loop[N].args = a
  BY <1>8
<1>10. QED
  BY Zenon, <1>8, <1>9 DEF N, loop

\* The matched arguments: values of the call and of formals(f), no more than there are
\* formals (or, for "...", values).
LEMMA MatchedFrom ==
  ASSUME NEW t, NEW values, IsList(values), Len(values) <= Len(Formals)
  PROVE  /\ IsList(MatchArguments(t, values)) /\ Len(MatchArguments(t, values)) <= Len(Formals)
         /\ \A i \in DOMAIN MatchArguments(t, values) :
              \/ \E k \in DOMAIN values : MatchArguments(t, values)[i].value = values[k].value
              \/ \E k \in Positions : MatchArguments(t, values)[i].value = FormalArguments[k].value
<1> DEFINE args == MatchArguments(t, values)
           m == Len(values)
<1>1. m \in Nat /\ DOMAIN values = 1..m
  BY ListShape
<1> HIDE DEF m
<1>2. CASE t.dots
  <2>1. args = [i \in 1..m |-> [name |-> <<t.func, "___", i>>, value |-> values[i].value]]
    BY <1>1, <1>2 DEF MatchArguments, VariableArguments
  <2> HIDE DEF args
  <2>2. args = [i \in 1..m |-> args[i]]
    BY <2>1
  <2>3. IsList(args) /\ Len(args) = m /\ DOMAIN args = 1..m
    BY <1>1, <2>2, Listed
  <2>4. \A i \in 1..m : args[i].value = values[i].value
    BY <2>1
  <2>5. QED
    BY Zenon, <1>1, <2>3, <2>4 DEF args, m
<1>3. CASE ~t.dots
  <2> DEFINE N == {Formals[i] : i \in Positions} \union {""}
             V == {values[k].value : k \in DOMAIN values} \union {FormalArguments[k].value : k \in Positions}
             E == {[name |-> x, value |-> v] : x \in N, v \in V}
  <2>1. ASSUME NEW v \in V
        PROVE  Holds(E, v)
    <3> HIDE DEF N, V
    <3>1. PICK x \in N : x = ""
      BY DEF N
    <3>2. [name |-> x, value |-> v] \in E
      OBVIOUS
    <3>3. ASSUME NEW e \in E
          PROVE  [e EXCEPT !.value = v] \in E
      <4>1. PICK y \in N, w \in V : e = [name |-> y, value |-> w]
        OBVIOUS
      <4>2. [e EXCEPT !.value = v] = [name |-> y, value |-> v]
        BY <4>1
      <4>3. QED
        BY <4>2
    <3> HIDE DEF E
    <3>4. QED
      BY Zenon, <3>1, <3>2, <3>3 DEF Holds
  <2>2. \A j \in DOMAIN values : values[j].value \in V
    OBVIOUS
  <2>3. Len(Formals) \in Nat /\ Positions = 1..Len(Formals)
    BY SubmissionAssumption DEF Positions
  <2>4. FormalArguments \in [Positions -> E]
    <3> SUFFICES ASSUME NEW i \in Positions
                 PROVE  FormalArguments[i] \in E
      <4> HIDE DEF E
      <4> QED BY DEF FormalArguments
    <3>1. FormalArguments[i] = [name |-> Formals[i], value |-> FormalArguments[i].value]
      BY DEF FormalArguments
    <3>2. Formals[i] \in N /\ FormalArguments[i].value \in V
      OBVIOUS
    <3> HIDE DEF N, V
    <3>3. QED
      BY <3>1, <3>2
  <2> HIDE DEF E
  <2>5. FormalArguments \in Seq(E)
    BY <2>3, <2>4
  <2>6. args = MatchLoop(values)[Len(Formals)].args
    BY <1>3 DEF MatchArguments
  <2>7. args \in Seq(E) /\ Len(args) <= Len(Formals)
    BY Zenon, <2>1, <2>2, <2>5, <2>6, MatchedList
  <2> HIDE DEF args
  <2>8. IsList(args)
    BY <2>7 DEF IsList
  <2>9. \A i \in DOMAIN args : args[i] \in E
    BY <2>7
  <2>10. \A e \in E : e.value \in V
    <3> HIDE DEF N, V
    <3> SUFFICES ASSUME NEW e \in E
                 PROVE  e.value \in V
      OBVIOUS
    <3>1. PICK x \in N, v \in V : e = [name |-> x, value |-> v]
      BY DEF E
    <3>2. QED
      BY <3>1
  <2>11. \A i \in DOMAIN args : args[i].value \in V
    BY <2>9, <2>10
  <2>12. QED
    BY Zenon, <2>7, <2>8, <2>11 DEF args
<1>4. QED
  BY <1>2, <1>3

\* What R's rule gives formal i: a named value, an unnamed one, or what formals(f) holds.
BoundValue(values, i) ==
  IF Named(values, Formals[i]) # {} THEN values[CHOOSE k \in Named(values, Formals[i]) : TRUE].value
  ELSE IF FreeFormals(values, i) <= Len(UnnamedValues(values))
  THEN UnnamedValues(values)[FreeFormals(values, i)].value
  ELSE FormalArguments[i].value

\* The arguments after n rounds that deleted nothing.
After(values, n) ==
  [i \in Positions |-> [name |-> Formals[i],
                        value |-> IF i <= n THEN BoundValue(values, i) ELSE FormalArguments[i].value]]

\* A round that gives the formal its value leads on to the next round.
LEMMA AfterRound ==
  ASSUME NEW values, NEW n \in Nat, n + 1 \in Positions, NEW v, v = BoundValue(values, n + 1), v.class # "NULL"
  PROVE  Assign(After(values, n), n + 1, v) = After(values, n + 1)
<1> DEFINE a == After(values, n)
           b == After(values, n + 1)
           m == n + 1
           old(i) == IF i <= n THEN BoundValue(values, i) ELSE FormalArguments[i].value
           new(i) == IF i <= n + 1 THEN BoundValue(values, i) ELSE FormalArguments[i].value
<1>1. Len(Formals) \in Nat /\ Positions = 1..Len(Formals)
  BY SubmissionAssumption DEF Positions
<1>2. a = [i \in Positions |-> [name |-> Formals[i], value |-> old(i)]]
  BY DEF After
<1>3. b = [i \in Positions |-> [name |-> Formals[i], value |-> new(i)]]
  BY DEF After
<1>4. new(m) = v /\ \A i \in Positions : i # m => new(i) = old(i)
  <2>1. m <= n + 1 /\ \A i \in Positions : i # m => (i <= n + 1 <=> i <= n)
    BY <1>1
  <2>2. QED
    BY Zenon, <2>1
<1> HIDE DEF old, new, a, b
<1>5. Len(a) = Len(Formals)
  <2>1. a = [i \in 1..Len(Formals) |-> a[i]]
    BY <1>1, <1>2
  <2>2. QED
    BY <1>1, <2>1, Listed
<1>6. m <= Len(a) /\ ~(m > Len(a))
  BY <1>1, <1>5
<1>7. Assign(a, m, v) = [a EXCEPT ![m].value = v]
  BY Zenon, <1>6 DEF Assign
<1>8. [a EXCEPT ![m].value = v] = b
  <2>1. a[m] = [name |-> Formals[m], value |-> old(m)]
    BY <1>2
  <2>2. PICK e : e = [name |-> Formals[m], value |-> v]
    OBVIOUS
  <2>3. [a EXCEPT ![m].value = v] = [a EXCEPT ![m] = e]
    <3>1. [a[m] EXCEPT !.value = v] = e
      BY <2>1, <2>2
    <3>2. [a EXCEPT ![m].value = v] = [a EXCEPT ![m] = [a[m] EXCEPT !.value = v]]
      OBVIOUS
    <3>3. QED
      BY Zenon, <3>1, <3>2
  <2>4. b[m] = e /\ \A i \in Positions : i # m => b[i] = a[i]
    BY <1>2, <1>3, <1>4, <2>2
  <2>5. a = [i \in Positions |-> a[i]] /\ b = [i \in Positions |-> b[i]]
    BY <1>2, <1>3
  <2>6. [a EXCEPT ![m] = e] = b
    BY <2>4, <2>5
  <2>7. QED
    BY <2>3, <2>6
<1>9. QED
  BY Zenon, <1>7, <1>8 DEF a, b

\* The formals that no argument names.
Free(args) == {k \in Positions : Named(args, Formals[k]) = {}}

\* How the number of free formals grows: it is a rank.
LEMMA FreeFacts ==
  ASSUME NEW args
  PROVE  /\ Len(Formals) \in Nat /\ Free(args) \subseteq 1..Len(Formals)
         /\ \A i \in 0..Len(Formals) : FreeFormals(args, i) = Rank(Free(args), i) /\ FreeFormals(args, i) \in Nat
         /\ FreeFormals(args, 0) = 0 /\ FreeFormals(args, Len(Formals)) = Cardinality(Free(args))
         /\ \A n \in Nat : n + 1 \in Positions =>
              FreeFormals(args, n + 1) = FreeFormals(args, n) + (IF n + 1 \in Free(args) THEN 1 ELSE 0)
<1> DEFINE N == Len(Formals)
           F == Free(args)
<1>1. N \in Nat /\ Positions = 1..N /\ F \subseteq 1..N
  BY SubmissionAssumption DEF Positions, Free
<1> HIDE DEF N
<1>2. \A i \in 0..N : FreeFormals(args, i) = Rank(F, i)
  <2> SUFFICES ASSUME NEW i \in 0..N
               PROVE  FreeFormals(args, i) = Rank(F, i)
    OBVIOUS
  <2>1. \A k : k \in 1..i <=> k \in Positions /\ k <= i
    BY <1>1
  <2>2. {k \in 1..i : Named(args, Formals[k]) = {}} = {j \in F : j <= i}
    BY Zenon, <2>1 DEF Free
  <2>3. QED
    BY <2>2 DEF FreeFormals, Rank
<1> HIDE DEF F
<1>3. /\ Rank(F, 0) = 0 /\ Rank(F, N) = Cardinality(F)
      /\ \A k \in Nat : Rank(F, k) \in Nat
      /\ \A k \in Nat : Rank(F, k + 1) = Rank(F, k) + (IF k + 1 \in F THEN 1 ELSE 0)
  BY <1>1, RankStep
<1>4. 0 \in 0..N /\ N \in 0..N
  BY <1>1
<1>5. ASSUME NEW n \in Nat, n + 1 \in Positions
      PROVE  FreeFormals(args, n + 1) = FreeFormals(args, n) + (IF n + 1 \in F THEN 1 ELSE 0)
  <2>1. n \in 0..N /\ n + 1 \in 0..N
    BY <1>1, <1>5
  <2>2. QED
    BY <2>1, <1>2, <1>3
<1>6. \A i \in 0..N : FreeFormals(args, i) \in Nat
  <2>1. \A i \in 0..N : i \in Nat
    BY <1>1
  <2>2. QED
    BY <2>1, <1>2, <1>3
<1>7. QED
  BY Zenon, <1>1, <1>2, <1>3, <1>4, <1>5, <1>6 DEF N, F

NoNull(values) == \A j \in DOMAIN values : values[j].value.class # "NULL"

\* Where no value is NULL, the loop binds every formal as R's rule does.
LEMMA MatchedExactly ==
  ASSUME NEW values, IsList(values), NoNull(values)
  PROVE  MatchLoop(values)[Len(Formals)].args = After(values, Len(Formals))
<1> DEFINE N == Len(Formals)
           L == Len(UnnamedValues(values))
           loop == MatchLoop(values)
           free(n) == FreeFormals(values, n)
           next(n) == IF free(n) <= L THEN free(n) + 1 ELSE L + 1
           reached(n) == loop[n] = [args |-> After(values, n), k |-> next(n)]
           S == {n \in Nat : n <= N => reached(n)}
<1>1. N \in Nat /\ Positions = 1..N
  BY SubmissionAssumption DEF Positions
<1>2. loop[0] = [args |-> FormalArguments, k |-> 1]
  BY MatchRounds
<1>3. \A i \in 1..N : loop[i] = MatchFormal(values, loop[i - 1], i)
  BY MatchRounds
<1>4. L \in Nat
  BY UnnamedFacts
<1>5. /\ free(0) = 0 /\ \A i \in 0..N : free(i) \in Nat
      /\ \A n \in Nat : n + 1 \in Positions =>
           free(n + 1) = free(n) + (IF n + 1 \in Free(values) THEN 1 ELSE 0)
  BY Zenon, FreeFacts
<1> HIDE DEF N, loop, free, L
<1>6. 0 \in S
  <2>1. next(0) = 1
    BY <1>4, <1>5
  <2>2. After(values, 0) = FormalArguments
    <3>1. \A i \in Positions : ~(i <= 0)
      BY <1>1
    <3>2. \A i \in Positions : FormalArguments[i] = [name |-> Formals[i], value |-> FormalArguments[i].value]
      BY DEF FormalArguments
    <3>3. FormalArguments = [i \in Positions |-> FormalArguments[i]]
      BY DEF FormalArguments
    <3>4. After(values, 0) = [i \in Positions |-> [name |-> Formals[i], value |-> FormalArguments[i].value]]
      BY Zenon, <3>1 DEF After
    <3>5. QED
      BY Zenon, <3>2, <3>3, <3>4
  <2>3. reached(0)
    BY Zenon, <1>2, <2>1, <2>2
  <2> HIDE DEF reached
  <2>4. QED
    BY <2>3
<1> HIDE DEF next, reached
<1>7. ASSUME NEW n \in Nat, n \in S
      PROVE  n + 1 \in S
  <2> SUFFICES ASSUME n + 1 <= N
               PROVE  reached(n + 1)
    OBVIOUS
  <2>1. n <= N /\ n \in 0..N /\ n + 1 \in 0..N /\ n + 1 \in 1..N /\ (n + 1) - 1 = n
    BY <1>1
  <2>2. reached(n)
    BY <1>7, <2>1
  <2>3. free(n) \in Nat /\ next(n) \in Nat \ {0}
    BY <1>4, <1>5, <2>1 DEF next
  <2> DEFINE i == n + 1
             a == After(values, n)
             k == next(n)
  <2>4. loop[i] = MatchFormal(values, [args |-> a, k |-> k], i)
    BY Zenon, <1>3, <2>1, <2>2 DEF reached
  <2>5. RoundOf(values, i, a, k)
    BY <2>3, RoundKinds
  <2>6. free(i) = free(n) + (IF i \in Free(values) THEN 1 ELSE 0) /\ i \in Positions
    BY <1>1, <1>5, <2>1
  <2>7. i \in Free(values) <=> Named(values, Formals[i]) = {}
    BY <2>6 DEF Free
  <2>8. \A x : Named(values, x) \subseteq DOMAIN values
    BY DEF Named
  <2> HIDE DEF i, a, k
  <2>9. ASSUME NEW j \in DOMAIN values, values[j].value = BoundValue(values, i)
        PROVE  Assign(a, i, values[j].value) = After(values, i)
    <3>1. PICK v : v = values[j].value
      OBVIOUS
    <3>2. v = BoundValue(values, i) /\ v.class # "NULL"
      BY Zenon, <2>9, <3>1 DEF NoNull
    <3>3. Assign(a, i, v) = After(values, i)
      BY <2>6, <3>2, AfterRound DEF i, a
    <3>4. QED
      BY <3>1, <3>3
  <2>10. CASE Named(values, Formals[i]) # {}
    <3>1. PICK j \in Named(values, Formals[i]) :
            /\ j = (CHOOSE l \in Named(values, Formals[i]) : TRUE)
            /\ loop[i] = [args |-> Assign(a, i, values[j].value), k |-> k]
      BY Zenon, <2>4, <2>5, <2>10 DEF RoundOf
    <3>2. values[j].value = BoundValue(values, i)
      <4>1. BoundValue(values, i) = values[CHOOSE l \in Named(values, Formals[i]) : TRUE].value
        BY Zenon, <2>10 DEF BoundValue
      <4>2. QED
        BY <3>1, <4>1
    <3>3. next(i) = k
      <4>1. free(i) = free(n)
        BY <2>3, <2>6, <2>7, <2>10
      <4>2. QED
        BY Zenon, <4>1 DEF next, k
    <3>4. Assign(a, i, values[j].value) = After(values, i)
      BY <2>8, <2>9, <3>2
    <3>5. reached(i)
      BY Zenon, <3>1, <3>3, <3>4 DEF reached
    <3>6. QED
      BY <3>5 DEF i
  <2>11. CASE Named(values, Formals[i]) = {} /\ k \in 1..L
    <3>1. ~(k > L) /\ k <= L /\ k # L + 1
      BY <2>11, <1>4
    <3>2. free(i) = k /\ free(i) <= L /\ next(i) = k + 1
      <4>1. free(i) = free(n) + 1
        BY <2>6, <2>7, <2>11
      <4>2. k = free(n) + 1 \/ k = L + 1
        BY Zenon DEF next, k
      <4>3. free(i) = k /\ free(i) <= L
        BY Zenon, <3>1, <4>1, <4>2
      <4>4. QED
        BY Zenon, <4>3 DEF next
    <3>3. PICK j \in Named(values, "") :
            /\ values[j] = UnnamedValues(values)[k]
            /\ loop[i] = [args |-> Assign(a, i, values[j].value), k |-> k + 1]
      BY Zenon, <2>4, <2>5, <2>11, <3>1 DEF RoundOf, L
    <3>4. values[j].value = BoundValue(values, i)
      BY Zenon, <2>11, <3>2, <3>3 DEF BoundValue, free, L
    <3>5. Assign(a, i, values[j].value) = After(values, i)
      BY <2>8, <2>9, <3>4
    <3>6. reached(i)
      BY Zenon, <3>2, <3>3, <3>5 DEF reached
    <3>7. QED
      BY <3>6 DEF i
  <2>12. CASE Named(values, Formals[i]) = {} /\ k > L
    <3>1. ~(k \in 1..L)
      BY <2>12, <1>4
    <3>2. loop[i] = [args |-> a, k |-> k]
      BY Zenon, <2>4, <2>5, <2>12, <3>1 DEF RoundOf, L
    <3>3. ~(free(i) <= L) /\ next(i) = k
      BY <1>4, <2>3, <2>6, <2>7, <2>12 DEF next, k
    <3>4. BoundValue(values, i) = FormalArguments[i].value
      BY Zenon, <2>12, <3>3 DEF BoundValue, free, L
    <3>5. a = After(values, i)
      <4>1. \A j \in Positions : j # i => (j <= n <=> j <= i)
        BY <1>1, <2>6 DEF i
      <4>2. i <= i /\ ~(i <= n)
        BY DEF i
      <4>3. \A j \in Positions : (IF j <= n THEN BoundValue(values, j) ELSE FormalArguments[j].value)
                                 = (IF j <= i THEN BoundValue(values, j) ELSE FormalArguments[j].value)
        BY Zenon, <3>4, <4>1, <4>2
      <4>4. QED
        BY Zenon, <4>3 DEF After, a
    <3>6. QED
      BY Zenon, <3>2, <3>3, <3>5 DEF reached, i
  <2>13. k \in 1..L \/ k > L
    BY <2>3, <1>4 DEF k
  <2>14. QED
    BY Zenon, <2>10, <2>11, <2>12, <2>13
<1>8. N \in S
  <2> HIDE DEF S
  <2> QED BY <1>1, <1>6, <1>7, SetInduction
<1>9. loop[N] = [args |-> After(values, N), k |-> next(N)]
  BY <1>1, <1>8 DEF reached
<1>10. QED
  BY <1>9 DEF N, loop

\* What R's rule gives formal i when the arguments are terms.
BoundTerm(args, i) ==
  IF Named(args, Formals[i]) # {} THEN args[CHOOSE k \in Named(args, Formals[i]) : TRUE].term
  ELSE IF FreeFormals(args, i) <= Len(UnnamedValues(args)) THEN UnnamedValues(args)[FreeFormals(args, i)].term
  ELSE IF Default[Formals[i]] # NoDefault THEN [data |-> Default[Formals[i]]]
  ELSE Unbound

\* A function with formals of its own gets a term for each of them.
LEMMA RuleByFormal ==
  ASSUME NEW t, ~t.dots, NEW args
  PROVE  RBinding(t, args) = [i \in Positions |-> BoundTerm(args, i)]
  BY Zenon DEF RBinding, BoundTerm, UnnamedValues

\* Arguments that carry the names of the formals go where their names say.
LEMMA NamedBinding ==
  ASSUME NEW t, ~t.dots, NEW args, NEW T,
         args = [i \in Positions |-> [name |-> Formals[i], term |-> T[i]]]
  PROVE  RBinding(t, args) = [i \in Positions |-> T[i]]
<1>1. Positions = DOMAIN Formals /\ \A i, j \in Positions : Formals[i] = Formals[j] => i = j
  BY SubmissionAssumption DEF Positions, IsInjective
<1>2. DOMAIN args = Positions /\ \A i \in Positions : args[i].name = Formals[i] /\ args[i].term = T[i]
  OBVIOUS
<1>3. ASSUME NEW i \in Positions
      PROVE  BoundTerm(args, i) = T[i]
  <2>1. Named(args, Formals[i]) = {i}
    BY Zenon, <1>1, <1>2 DEF Named
  <2>2. PICK j \in Named(args, Formals[i]) : j = (CHOOSE k \in Named(args, Formals[i]) : TRUE)
    BY <2>1
  <2>3. j = i /\ Named(args, Formals[i]) # {}
    BY <2>1
  <2>4. BoundTerm(args, i) = args[CHOOSE k \in Named(args, Formals[i]) : TRUE].term
    BY Zenon, <2>3 DEF BoundTerm
  <2>5. QED
    BY Zenon, <1>2, <2>2, <2>3, <2>4
<1>4. RBinding(t, args) = [i \in Positions |-> BoundTerm(args, i)]
  BY RuleByFormal
<1>5. [i \in Positions |-> BoundTerm(args, i)] = [i \in Positions |-> T[i]]
  BY Zenon, <1>3
<1>6. QED
  BY Zenon, <1>4, <1>5

\* The terms of an argument list, each with the name of its value.
TermsOf(values, T) == [i \in DOMAIN values |-> [name |-> values[i].name, term |-> T[i]]]

\* R's rule takes for each formal the term of the value that the loop takes, and the
\* default where the loop leaves what formals(f) holds.
LEMMA RuleFollowsLoop ==
  ASSUME NEW values, IsList(values), NEW T, NEW i \in Positions
  PROVE  \/ \E j \in DOMAIN values : BoundValue(values, i) = values[j].value /\ BoundTerm(TermsOf(values, T), i) = T[j]
         \/ /\ BoundValue(values, i) = FormalArguments[i].value
            /\ Default[Formals[i]] # NoDefault => BoundTerm(TermsOf(values, T), i) = [data |-> Default[Formals[i]]]
<1> DEFINE args == TermsOf(values, T)
           N == Len(UnnamedValues(values))
           k == FreeFormals(values, i)
           keep == Named(values, "")
<1>1. DOMAIN args = DOMAIN values /\ \A j \in DOMAIN values : args[j].name = values[j].name /\ args[j].term = T[j]
  <2>1. args = [j \in DOMAIN values |-> [name |-> values[j].name, term |-> T[j]]]
    BY DEF TermsOf
  <2> HIDE DEF args
  <2>2. DOMAIN args = DOMAIN values /\ \A j \in DOMAIN values : args[j] = [name |-> values[j].name, term |-> T[j]]
    BY Zenon, <2>1
  <2>3. QED
    BY <2>2
<1>2. \A x : Named(args, x) = Named(values, x)
  BY Zenon, <1>1 DEF Named
<1>3. FreeFormals(args, i) = k
  BY Zenon, <1>2 DEF FreeFormals
<1>4. IsList(args)
  <2>1. Len(values) \in Nat /\ DOMAIN values = 1..Len(values)
    BY ListShape
  <2>2. args = [j \in DOMAIN values |-> args[j]]
    BY DEF TermsOf
  <2> HIDE DEF args
  <2>3. args = [j \in 1..Len(values) |-> args[j]]
    BY Zenon, <2>1, <2>2
  <2>4. QED
    BY <2>1, <2>3, Listed
<1>5. /\ Len(UnnamedValues(args)) = N /\ N \in Nat
      /\ \A l \in 1..N : \E j \in keep : UnnamedValues(values)[l] = values[j] /\ UnnamedValues(args)[l] = args[j]
  <2> HIDE DEF args
  <2>1. /\ Len(UnnamedValues(args)) = Cardinality(keep) /\ N = Cardinality(keep) /\ N \in Nat
    BY Zenon, <1>2, <1>4, UnnamedFacts
  <2>2. ASSUME NEW l \in 1..N
        PROVE  \E j \in keep : UnnamedValues(values)[l] = values[j] /\ UnnamedValues(args)[l] = args[j]
    <3>1. PICK j \in keep : Rank(keep, j) = l /\ UnnamedValues(values)[l] = values[j]
      BY Zenon, UnnamedFacts
    <3>2. UnnamedValues(args)[Rank(keep, j)] = args[j]
      BY Zenon, <1>2, <1>4, UnnamedFacts
    <3>3. QED
      BY Zenon, <3>1, <3>2
  <2>3. QED
    BY Zenon, <2>1, <2>2
<1>6. k \in Nat /\ (Named(values, Formals[i]) = {} => k # 0)
  <2>1. Len(Formals) \in Nat /\ i \in 1..Len(Formals)
    BY SubmissionAssumption DEF Positions
  <2>2. i \in 0..Len(Formals) /\ i - 1 \in 0..Len(Formals) /\ i - 1 \in Nat /\ (i - 1) + 1 = i
    BY <2>1
  <2> HIDE DEF k
  <2>3. k \in Nat /\ FreeFormals(values, i - 1) \in Nat
    BY Zenon, <2>2, FreeFacts DEF k
  <2>4. k = FreeFormals(values, i - 1) + (IF i \in Free(values) THEN 1 ELSE 0)
    BY Zenon, <2>2, FreeFacts DEF k
  <2>5. Named(values, Formals[i]) = {} => i \in Free(values)
    BY Zenon DEF Free
  <2>6. QED
    BY <2>3, <2>4, <2>5
<1> HIDE DEF args, N, k
<1>7. \A l \in Nat : l # 0 /\ l <= N => l \in 1..N
  <2>1. N \in Nat
    BY Zenon, <1>5
  <2>2. QED
    BY <2>1
<1>8. keep \subseteq DOMAIN values /\ \A x : Named(values, x) \subseteq DOMAIN values
  BY DEF Named
<1>9. CASE Named(values, Formals[i]) # {}
  <2>1. PICK j \in Named(values, Formals[i]) : j = (CHOOSE l \in Named(values, Formals[i]) : TRUE)
    BY <1>9
  <2>2. BoundValue(values, i) = values[CHOOSE l \in Named(values, Formals[i]) : TRUE].value
    BY Zenon, <1>9 DEF BoundValue
  <2>3. BoundTerm(args, i) = args[CHOOSE l \in Named(values, Formals[i]) : TRUE].term
    BY Zenon, <1>2, <1>9 DEF BoundTerm
  <2>4. QED
    BY Zenon, <1>1, <1>8, <2>1, <2>2, <2>3 DEF args
<1>10. CASE Named(values, Formals[i]) = {} /\ k <= N
  <2>1. k \in 1..N
    BY Zenon, <1>6, <1>7, <1>10
  <2>2. PICK j \in keep : UnnamedValues(values)[k] = values[j] /\ UnnamedValues(args)[k] = args[j]
    BY Zenon, <1>5, <2>1
  <2>3. BoundValue(values, i) = UnnamedValues(values)[k].value
    BY Zenon, <1>10 DEF BoundValue, k, N
  <2>4. BoundTerm(args, i) = UnnamedValues(args)[k].term
    BY Zenon, <1>2, <1>3, <1>5, <1>10 DEF BoundTerm
  <2>5. QED
    BY Zenon, <1>1, <1>8, <2>2, <2>3, <2>4 DEF args
<1>11. CASE Named(values, Formals[i]) = {} /\ ~(k <= N)
  <2>1. BoundValue(values, i) = FormalArguments[i].value
    BY Zenon, <1>11 DEF BoundValue, k, N
  <2>2. Default[Formals[i]] # NoDefault => BoundTerm(args, i) = [data |-> Default[Formals[i]]]
    BY Zenon, <1>2, <1>3, <1>5, <1>11 DEF BoundTerm
  <2>3. QED
    BY Zenon, <2>1, <2>2 DEF args
<1>12. QED
  BY Zenon, <1>9, <1>10, <1>11

-----------------------------------------------------------------------------
(***************************************************************************)
(* The parameter vectors.                                                  *)
(***************************************************************************)
Kept(values) == {i \in DOMAIN values : values[i].class # "symbol"}

\* proc_args_clean is a list with one place for each value that is no symbol.
LEMMA CleanList ==
  ASSUME NEW values, IsList(values)
  PROVE  /\ IsFiniteSet(Kept(values)) /\ Cardinality(Kept(values)) \in Nat
         /\ IsList(WithoutSymbols(values))
         /\ Len(WithoutSymbols(values)) = Cardinality(Kept(values))
         /\ DOMAIN WithoutSymbols(values) = 1..Cardinality(Kept(values))
         /\ \A i \in 1..Cardinality(Kept(values)) :
              WithoutSymbols(values)[i] = values[CHOOSE k \in Kept(values) : Rank(Kept(values), k) = i]
<1>1. Kept(values) \subseteq DOMAIN values
  BY DEF Kept
<1>2. WithoutSymbols(values) = Sublist(values, Kept(values))
  BY DEF WithoutSymbols, Kept
<1>3. QED
  BY <1>1, <1>2, SublistShape

\* The last value, when it is no symbol, is the last one that is kept.
LEMMA LastKept ==
  ASSUME NEW values, IsList(values), Len(values) > 0, values[Len(values)].class # "symbol"
  PROVE  /\ Len(WithoutSymbols(values)) > 0
         /\ WithoutSymbols(values)[Len(WithoutSymbols(values))] = values[Len(values)]
<1> DEFINE K == Kept(values)
           L == Len(values)
<1>1. L \in Nat /\ L > 0 /\ L \in K /\ \A k \in K : k \in 1..L
  BY ListShape DEF Kept
<1>2. IsFiniteSet(K) /\ Cardinality(K) \in Nat
  BY CleanList
<1>3. Cardinality(K) # 0
  BY <1>1, <1>2, FS_EmptySet
<1>4. Rank(Kept(values), L) = Cardinality(K)
  <2>1. {k \in K : k <= L} = K
    BY <1>1
  <2>2. QED
    BY <2>1 DEF Rank
<1>5. ASSUME NEW k \in K, Rank(Kept(values), k) = Cardinality(K)
      PROVE  k = L
  <2>1. {j \in K : j <= k} \subseteq K
    OBVIOUS
  <2>2. {j \in K : j <= k} = K
    BY <2>1, <1>5, <1>2, FS_Subset DEF Rank
  <2>3. L <= k
    BY <1>1, <2>2
  <2>4. QED
    BY <2>3, <1>1
<1> HIDE DEF K, L
<1>6. (CHOOSE k \in K : Rank(Kept(values), k) = Cardinality(K)) = L
  BY <1>1, <1>4, <1>5
<1>7. Cardinality(K) \in 1..Cardinality(K)
  BY <1>2, <1>3
<1>8. QED
  BY <1>6, <1>7, CleanList DEF K, L

\* Without symbols nothing is removed.
LEMMA NoneRemoved ==
  ASSUME NEW values, IsList(values), \A i \in DOMAIN values : values[i].class # "symbol"
  PROVE  WithoutSymbols(values) = values
<1> DEFINE L == Len(values)
<1>1. L \in Nat /\ Kept(values) = 1..L /\ values = [i \in 1..L |-> values[i]]
  BY ListShape DEF Kept
<1>2. \A i \in 1..L : Rank(Kept(values), i) = i
  <2> TAKE i \in 1..L
  <2>1. {k \in Kept(values) : k <= i} = 1..i
    BY <1>1
  <2>2. Cardinality(1..i) = i
    <3>1. i \in Int /\ ~(1 > i) /\ i - 1 + 1 = i
      BY <1>1
    <3> HIDE DEF L
    <3>2. QED
      BY <3>1, FS_Interval
  <2>3. QED
    BY <2>1, <2>2 DEF Rank
<1>3. Cardinality(Kept(values)) = L
  <2> HIDE DEF L
  <2>1. L \in Int /\ 1 \in Int /\ (IF 1 > L THEN 0 ELSE L - 1 + 1) = L
    BY <1>1
  <2>2. Cardinality(1..L) = L
    BY <2>1, FS_Interval
  <2>3. QED
    BY <2>2, <1>1
<1> DEFINE w == WithoutSymbols(values)
<1>4. \A i \in 1..L : w[i] = values[i]
  <2> TAKE i \in 1..L
  <2>1. (CHOOSE k \in 1..L : Rank(Kept(values), k) = i) = i
    BY <1>2
  <2>2. w[i] = values[CHOOSE k \in Kept(values) : Rank(Kept(values), k) = i]
    BY <1>3, CleanList
  <2>3. QED
    BY <2>1, <2>2, <1>1
<1>5. w = [i \in 1..L |-> w[i]]
  <2>1. IsList(w) /\ Len(w) = L
    BY <1>3, CleanList
  <2> HIDE DEF w, L
  <2>2. QED
    BY <2>1, ListShape
<1> HIDE DEF w, L
<1>6. w = values
  BY <1>1, <1>4, <1>5
<1>7. QED
  BY <1>6 DEF w

\* A value that is no symbol is processed into one that is none.
LEMMA ProcessedSymbol ==
  ASSUME NEW n, NEW i, NEW v, v.class # "symbol"
  PROVE  Processed(n, i, v).class # "symbol"
  BY DEF Processed, Classify

\* The vectors of TaskExecutionResult: one place for each argument, the return value last.
LEMMA VectorShapes ==
  ASSUME NEW n, NEW args, IsList(args), NEW returns \in {0, 1}
  PROVE  LET V == ParameterVectors(n, args, returns)
         IN /\ IsList(V.values) /\ Len(V.values) = Len(args) + returns
            /\ \A i \in 1..Len(args) :
                 /\ V.values[i] = Processed(n, i, args[i].value)
                 /\ V.names[i] = args[i].name
                 /\ V.types[i] = Classify(args[i].value).type
                 /\ V.meta.dirs[i] = 0
            /\ returns = 1 => /\ V.values[Len(args) + 1] = [class |-> "path", of |-> RetPath(n)]
                              /\ V.types[Len(args) + 1] = 10 /\ V.meta.dirs[Len(args) + 1] = 1
<1> DEFINE m == Len(args)
           values == [i \in DOMAIN args |-> Processed(n, i, args[i].value)]
           names == [i \in DOMAIN args |-> args[i].name]
           types == [i \in DOMAIN args |-> Classify(args[i].value).type]
           last(x) == IF returns = 1 THEN <<x>> ELSE <<>>
           path == [class |-> "path", of |-> RetPath(n)]
           V == ParameterVectors(n, args, returns)
<1>1. /\ V.values = values \o last(path) /\ V.names = names \o last("RETURN_VALUE")
      /\ V.types = types \o last(10) /\ V.meta = Metadata(args, returns)
  BY DEF ParameterVectors
<1>2. m \in Nat /\ DOMAIN args = 1..m
  BY ListShape
<1>3. /\ values = [i \in 1..m |-> values[i]] /\ names = [i \in 1..m |-> names[i]]
      /\ types = [i \in 1..m |-> types[i]]
      /\ \A i \in 1..m : /\ values[i] = Processed(n, i, args[i].value)
                         /\ names[i] = args[i].name
                         /\ types[i] = Classify(args[i].value).type
  BY <1>2
<1> HIDE DEF values, names, types, m, V
<1>4. /\ IsList(values) /\ Len(values) = m /\ IsList(names) /\ Len(names) = m
      /\ IsList(types) /\ Len(types) = m
  BY <1>2, <1>3, Listed
<1>5. ASSUME NEW x PROVE IsList(last(x)) /\ Len(last(x)) = returns /\ (returns = 1 => last(x)[1] = x)
  <2>1. <<>> \in Seq({}) /\ <<x>> \in Seq({x}) /\ Len(<<x>>) = 1 /\ <<x>>[1] = x
    OBVIOUS
  <2>2. IsList(<<>>) /\ IsList(<<x>>)
    BY <2>1 DEF IsList
  <2>3. QED
    BY <2>1, <2>2
<1> HIDE DEF last, path
<1>6. /\ IsList(V.values) /\ Len(V.values) = m + returns
      /\ \A i \in 1..m : V.values[i] = values[i]
      /\ returns = 1 => V.values[m + 1] = path
  <2> DEFINE q == last(path)
  <2>1. IsList(q) /\ Len(q) = returns /\ (returns = 1 => q[1] = path)
    BY <1>5
  <2>2. V.values = values \o q
    BY <1>1
  <2> HIDE DEF q
  <2>3. IsList(values \o q) /\ Len(values \o q) = Len(values) + Len(q)
    BY <2>1, <1>4, Joined
  <2>4. \A i \in 1..Len(values) : (values \o q)[i] = values[i]
    BY <2>1, <1>4, Joined
  <2>5. Len(q) = 1 => (values \o q)[Len(values) + 1] = q[1]
    BY <2>1, <1>4, Joined
  <2>6. QED
    BY Zenon, <2>1, <2>2, <2>3, <2>4, <2>5, <1>4
<1>7. /\ \A i \in 1..m : V.names[i] = names[i] /\ V.types[i] = types[i]
      /\ returns = 1 => V.types[m + 1] = 10
  <2> DEFINE q == last("RETURN_VALUE")
             r == last(10)
  <2>1. IsList(q) /\ IsList(r) /\ Len(r) = returns /\ (returns = 1 => r[1] = 10)
    BY <1>5
  <2>2. V.names = names \o q /\ V.types = types \o r
    BY <1>1
  <2> HIDE DEF q, r
  <2>3. \A i \in 1..m : V.names[i] = names[i] /\ V.types[i] = types[i]
    BY <2>1, <2>2, <1>4, Joined
  <2>4. Len(r) = 1 => (types \o r)[Len(types) + 1] = r[1]
    BY <2>1, <1>4, Joined
  <2>5. QED
    BY Zenon, <2>1, <2>2, <2>3, <2>4, <1>4
<1>8. (\A i \in 1..m : V.meta.dirs[i] = 0) /\ (returns = 1 => V.meta.dirs[m + 1] = 1)
  BY <1>1, <1>2 DEF Metadata, m
<1>9. QED
  BY <1>3, <1>6, <1>7, <1>8 DEF V, m, path

\* The parameter of the return value is the last one, whatever symbols are removed.
LEMMA LastParameter ==
  ASSUME NEW n, NEW args, IsList(args)
  PROVE  LET ps == Parameters(n, args, 1)
         IN Len(ps) > 0 /\ ps[Len(ps)].value.of = RetPath(n)
<1> DEFINE V == ParameterVectors(n, args, 1)
           w == WithoutSymbols(V.values)
           ps == Parameters(n, args, 1)
<1>1. /\ IsList(V.values) /\ Len(V.values) = Len(args) + 1 /\ Len(args) \in Nat
      /\ V.values[Len(args) + 1] = [class |-> "path", of |-> RetPath(n)]
  BY VectorShapes, ListShape
<1>2. Len(V.values) > 0 /\ V.values[Len(V.values)] = [class |-> "path", of |-> RetPath(n)]
  BY <1>1
<1> HIDE DEF V
<1>3. Len(w) > 0 /\ w[Len(w)] = [class |-> "path", of |-> RetPath(n)] /\ IsList(w)
  BY <1>1, <1>2, LastKept, CleanList
<1>4. Len(w) \in Nat /\ DOMAIN w = 1..Len(w)
  BY <1>3, ListShape
<1>5. ps = [i \in DOMAIN w |-> [value |-> w[i], name |-> V.names[i], type |-> V.types[i],
                                content |-> V.contents[i], direction |-> V.meta.dirs[i],
                                rename |-> V.meta.renames[i]]]
  BY DEF Parameters, V
<1> HIDE DEF w, ps
<1>6. ps = [i \in 1..Len(w) |-> ps[i]] /\ \A i \in 1..Len(w) : ps[i].value = w[i]
  BY <1>4, <1>5
<1>7. Len(ps) = Len(w)
  BY <1>4, <1>6, Listed
<1>8. QED
  BY <1>3, <1>4, <1>6, <1>7 DEF ps

\* Without symbols every argument is a parameter of its own, beside its own type.
LEMMA AllParameters ==
  ASSUME NEW n, NEW args, IsList(args), NEW returns \in {0, 1},
         \A i \in DOMAIN args : args[i].value.class # "symbol"
  PROVE  LET ps == Parameters(n, args, returns)
         IN /\ IsList(ps) /\ Len(ps) = Len(args) + returns
            /\ \A i \in 1..Len(args) :
                 /\ ps[i].value = Processed(n, i, args[i].value)
                 /\ ps[i].name = args[i].name
                 /\ ps[i].type = Classify(args[i].value).type
                 /\ ps[i].direction = 0
            /\ returns = 1 => LET p == ps[Len(args) + 1]
                              IN p.value.of = RetPath(n) /\ p.type = 10 /\ p.direction = 1
<1> DEFINE V == ParameterVectors(n, args, returns)
           m == Len(args)
           ps == Parameters(n, args, returns)
<1>1. /\ IsList(V.values) /\ Len(V.values) = m + returns
      /\ \A i \in 1..m : /\ V.values[i] = Processed(n, i, args[i].value)
                         /\ V.names[i] = args[i].name
                         /\ V.types[i] = Classify(args[i].value).type
                         /\ V.meta.dirs[i] = 0
      /\ returns = 1 => /\ V.values[m + 1] = [class |-> "path", of |-> RetPath(n)]
                        /\ V.types[m + 1] = 10 /\ V.meta.dirs[m + 1] = 1
  BY VectorShapes
<1>2. m \in Nat /\ DOMAIN args = 1..m
  BY ListShape
<1> HIDE DEF V, m
<1>3. Len(V.values) \in Nat /\ DOMAIN V.values = 1..Len(V.values)
  BY <1>1, ListShape
<1>4. \A i \in DOMAIN V.values : V.values[i].class # "symbol"
  <2> TAKE i \in DOMAIN V.values
  <2>1. CASE i \in 1..m
    BY <2>1, <1>1, <1>2, ProcessedSymbol
  <2>2. CASE i \notin 1..m
    <3>1. i = m + 1 /\ returns = 1
      BY <2>2, <1>1, <1>2, <1>3
    <3>2. QED
      BY <3>1, <1>1
  <2>3. QED
    BY <2>1, <2>2
<1>5. WithoutSymbols(V.values) = V.values
  BY <1>1, <1>4, NoneRemoved
<1>6. ps = [i \in 1..(m + returns) |-> [value |-> V.values[i], name |-> V.names[i], type |-> V.types[i],
                                content |-> V.contents[i], direction |-> V.meta.dirs[i],
                                rename |-> V.meta.renames[i]]]
  BY <1>1, <1>3, <1>5 DEF Parameters, V
<1> HIDE DEF ps
<1>7. /\ ps = [i \in 1..(m + returns) |-> ps[i]]
      /\ \A i \in 1..(m + returns) : /\ ps[i].value = V.values[i] /\ ps[i].name = V.names[i]
                                     /\ ps[i].type = V.types[i] /\ ps[i].direction = V.meta.dirs[i]
  BY <1>6
<1>8. IsList(ps) /\ Len(ps) = m + returns
  <2>1. m + returns \in Nat
    BY <1>2
  <2>2. QED
    BY <2>1, <1>7, Listed
<1>9. \A i \in 1..m : i \in 1..(m + returns)
  BY <1>2
<1>10. returns = 1 => LET p == ps[m + 1] IN p.value.of = RetPath(n) /\ p.type = 10 /\ p.direction = 1
  <2>1. returns = 1 => m + 1 \in 1..(m + returns)
    BY <1>2
  <2>2. QED
    BY <1>1, <1>7, <2>1
<1>11. QED
  BY <1>1, <1>7, <1>8, <1>9, <1>10 DEF ps, m

-----------------------------------------------------------------------------
(***************************************************************************)
(* The inductive invariant.  A call is the record kept in calls[n].        *)
(***************************************************************************)
Matched(c) == MatchArguments(c.task, c.values)
Returns(c) == IF c.task.return_value THEN 1 ELSE 0

\* No formal of the call is left without argument and default.
Complete(c) == \A i \in DOMAIN Matched(c) : Matched(c)[i].value.class # "symbol"

ResultOf(n) == [func |-> calls[n].task.func, args |-> ran[n]]

\* What an argument stands for: a future for the result of its task.
Current(v) == IF v.class = "future_object" THEN ResultOf(v.of) ELSE Term(v)

MatchedArgs(c) ==
  [i \in DOMAIN Matched(c) |-> [name |-> Matched(c)[i].name, term |-> Current(Matched(c)[i].value)]]

\* The argument lists of shape s that the program could write.
Argument(class) ==
  IF class \in {"future_object", "future_object_path"} THEN [class : {class}, of : Calls]
  ELSE {[class |-> class, of |-> class]}
ArgumentLists(s) ==
  {[i \in DOMAIN s |-> [name |-> s[i].name, value |-> v[i]]] :
     v \in {w \in [DOMAIN s -> UNION {Argument(s[i].class) : i \in DOMAIN s}] :
              \A i \in DOMAIN s : w[i] \in Argument(s[i].class)}}

ListInv ==
  /\ IsList(calls) /\ IsList(params)
  /\ \A n \in DOMAIN calls : \E s \in Shapes : calls[n].values \in ArgumentLists(s)

StateInv ==
  /\ ran = [n \in Calls |-> ran[n]]
  /\ \A n \in Calls :
       /\ n \notin DOMAIN calls => tstate[n] = "none"
       /\ tstate[n] \in {"none", "queued"} => attempts[n] < MaxAttempts
       /\ tstate[n] # "done" => ran[n] = <<>>

ParamInv ==
  \A n \in DOMAIN calls :
    tstate[n] # "rejected" => params[n] = Parameters(n, Matched(calls[n]), Returns(calls[n]))

\* A return file holds nothing, a part of a value, or the result of its own task.
FileInv ==
  \A n \in Calls :
    \/ file[RetPath(n)] \in {NoFile, Partial}
    \/ tstate[n] = "done" /\ file[RetPath(n)] = ResultOf(n)

ArgInv ==
  \A n \in DOMAIN calls : tstate[n] # "rejected" =>
    \A i \in SerializedArguments(n, Matched(calls[n])) : file[ArgPath(n, i)] = Term(Matched(calls[n])[i].value)

\* What each kind of wait_on makes of the future of call n: the result that its task
\* computed; the untouched future, if it is an element future in a list; or, in a vector of
\* element futures, the path of a file that is lost.
Delivered(kind, n, entry) ==
  IF kind = "list" /\ calls[n].task.return_type = "element" THEN entry = ElementFuture(n)
  ELSE \/ tstate[n] = "done" /\ entry = ResultOf(n)
       \/ kind = "path" /\ entry = [path |-> RetPath(n)] /\ Lost(n)

\* The futures waited for are futures of calls, and each value that wait_on has so far is
\* what it makes of the future at the same place.
WaitInv ==
  /\ waiting = [kind |-> waiting.kind, of |-> waiting.of, values |-> waiting.values]
  /\ IsList(waiting.of) /\ IsList(waiting.values)
  /\ \A i \in DOMAIN waiting.of : waiting.of[i] \in DOMAIN calls
  /\ waiting.kind \in {"object", "path", "list"} => Len(waiting.values) < Len(waiting.of)
  /\ waiting.kind = "object" => Len(waiting.of) = 1
  /\ \A i \in DOMAIN waiting.values :
       i \in DOMAIN waiting.of /\ Delivered(waiting.kind, waiting.of[i], waiting.values[i])

\* What wait_on has returned: the result of the task of its future; a list with one entry
\* for each future, at its place; or an error, when the result of one of them is lost.
GotInv ==
  \/ got.kind = "none"
  \/ /\ \A i \in DOMAIN got.of : got.of[i] \in DOMAIN calls
     /\ \/ got.kind \in {"object", "list"} /\ got.value = Error /\ \E i \in DOMAIN got.of : Lost(got.of[i])
        \/ got.kind = "object" /\ 1 \in DOMAIN got.of /\ Delivered("object", got.of[1], got.value)
        \/ /\ got.kind \in {"list", "path"} /\ DOMAIN got.value.list = DOMAIN got.of
           /\ \A i \in DOMAIN got.of : Delivered(got.kind, got.of[i], got.value.list[i])

\* A marker stands for a registration, with the constraints of a task of that marker.
MarkerInv ==
  /\ \A m \in markers : \E u \in Tasks : Marker(u) = m /\ <<u.func, u.constraint>> \in registered
  /\ \A n \in DOMAIN calls : tstate[n] # "rejected" => Marker(calls[n].task) \in markers

\* A task ran after the tasks whose files it reads.
ProducersFirst == \A n \in DOMAIN calls : tstate[n] = "done" => \A k \in Producers(n) : tstate[k] = "done"

FuturesDone(n) ==
  \A i \in DOMAIN Matched(calls[n]) :
    LET v == Matched(calls[n])[i].value
    IN v.class = "future_object" => v.of \in DOMAIN calls /\ tstate[v.of] = "done"

RanAsMatched(n) == ran[n] = RBinding(calls[n].task, MatchedArgs(calls[n]))

\* A complete call ran with its own matched arguments, its futures by their results.
RunInv ==
  \A n \in DOMAIN calls : tstate[n] = "done" /\ Complete(calls[n]) => FuturesDone(n) /\ RanAsMatched(n)

FactsInv == TypeOK /\ ListInv /\ StateInv /\ ParamInv /\ FileInv /\ ArgInv

SubmissionInv == FactsInv /\ WaitInv /\ GotInv /\ MarkerInv /\ ProducersFirst /\ RunInv

-----------------------------------------------------------------------------
(***************************************************************************)
(* What the steps do.                                                      *)
(***************************************************************************)
\* The paths are paths, and no two of them are the same.
LEMMA PathFacts ==
  /\ \A n \in Calls : RetPath(n) \in Paths /\ RetPath(n).kind = "ret" /\ RetPath(n).call = n
  /\ \A n \in Calls, i \in 1..Len(Formals) : ArgPath(n, i) \in Paths
  /\ \A n, i : ArgPath(n, i).kind = "arg" /\ ArgPath(n, i).call = n /\ ArgPath(n, i).index = i
  /\ \A n, m, i : RetPath(n) # ArgPath(m, i)
  /\ \A n, m : RetPath(n) = RetPath(m) => n = m
<1>1. Len(Formals) \in Nat
  BY SubmissionAssumption
<1>2. \A i \in 1..Len(Formals) : i \in 1..(2 * Len(Formals))
  BY <1>1
<1>3. \A n \in Calls, i \in 1..Len(Formals) : ArgPath(n, i) \in Paths
  BY <1>2 DEF ArgPath, Paths
<1>4. \A n \in Calls : RetPath(n) \in Paths /\ RetPath(n).kind = "ret" /\ RetPath(n).call = n
  BY DEF RetPath, Paths
<1>5. \A n, i : ArgPath(n, i).kind = "arg" /\ ArgPath(n, i).call = n /\ ArgPath(n, i).index = i
  BY DEF ArgPath
<1>6. \A n : RetPath(n).kind = "ret" /\ RetPath(n).call = n
  BY DEF RetPath
<1>7. QED
  BY <1>3, <1>4, <1>5, <1>6, "ret" # "arg"

\* An argument list of a shape is a list of values of its classes, as long as the shape.
LEMMA WrittenList ==
  ASSUME NEW s \in Shapes, NEW values \in ArgumentLists(s)
  PROVE  /\ IsList(values) /\ Len(values) = Len(s) /\ DOMAIN values = DOMAIN s
         /\ Len(values) \in Nat /\ DOMAIN values = 1..Len(values) /\ Len(values) <= Len(Formals)
         /\ \A i \in DOMAIN s : values[i].name = s[i].name /\ values[i].value \in Argument(s[i].class)
<1>1. PICK w : /\ values = [i \in DOMAIN s |-> [name |-> s[i].name, value |-> w[i]]]
               /\ \A i \in DOMAIN s : w[i] \in Argument(s[i].class)
  BY DEF ArgumentLists
<1>2. s \in Shape /\ Len(s) <= Len(Formals)
  BY SubmissionAssumption
<1>3. Len(s) \in Nat /\ DOMAIN s = 1..Len(s)
  <2>1. IsList(s)
    BY Zenon, <1>2 DEF Shape, IsList
  <2>2. QED
    BY <2>1, ListShape
<1>4. values = [i \in 1..Len(s) |-> values[i]]
  BY <1>1, <1>3
<1>5. IsList(values) /\ Len(values) = Len(s) /\ DOMAIN values = 1..Len(s)
  BY <1>3, <1>4, Listed
<1>6. \A i \in DOMAIN s : values[i].name = s[i].name /\ values[i].value = w[i]
  BY <1>1
<1>7. QED
  BY Zenon, <1>1, <1>2, <1>3, <1>5, <1>6

\* The matched arguments of a call the program can write.
LEMMA MatchedShape ==
  ASSUME NEW c, c.task \in Tasks, NEW s \in Shapes, c.values \in ArgumentLists(s)
  PROVE  /\ IsList(Matched(c)) /\ Len(Matched(c)) \in Nat /\ DOMAIN Matched(c) = 1..Len(Matched(c))
         /\ \A i \in DOMAIN Matched(c) : i \in 1..Len(Formals)
         /\ \A i \in DOMAIN Matched(c) :
              Matched(c)[i].value.class = "future_object" => Matched(c)[i].value.of \in Calls
<1> DEFINE args == Matched(c)
           values == c.values
<1>1. IsList(values) /\ Len(values) <= Len(Formals)
  BY Zenon, WrittenList
<1>2. /\ IsList(args) /\ Len(args) <= Len(Formals)
      /\ \A i \in DOMAIN args :
            \/ \E k \in DOMAIN values : args[i].value = values[k].value
            \/ \E k \in Positions : args[i].value = FormalArguments[k].value
  <2>1. PICK t : t = c.task
    OBVIOUS
  <2> DEFINE vs == c.values
  <2> HIDE DEF vs
  <2>2. args = MatchArguments(t, vs) /\ IsList(vs) /\ Len(vs) <= Len(Formals)
    BY Zenon, <1>1, <2>1 DEF Matched, vs
  <2>3. /\ IsList(MatchArguments(t, vs)) /\ Len(MatchArguments(t, vs)) <= Len(Formals)
        /\ \A i \in DOMAIN MatchArguments(t, vs) :
              \/ \E k \in DOMAIN vs : MatchArguments(t, vs)[i].value = vs[k].value
              \/ \E k \in Positions : MatchArguments(t, vs)[i].value = FormalArguments[k].value
    BY <2>2, MatchedFrom
  <2> HIDE DEF args
  <2>4. /\ IsList(args) /\ Len(args) <= Len(Formals)
        /\ \A i \in DOMAIN args :
              \/ \E k \in DOMAIN vs : args[i].value = vs[k].value
              \/ \E k \in Positions : args[i].value = FormalArguments[k].value
    BY <2>2, <2>3
  <2>5. QED
    BY <2>4 DEF vs
<1>3. \A i \in DOMAIN values : values[i].value \in Argument(s[i].class)
  BY Zenon, WrittenList
<1>4. \A k \in DOMAIN values : values[k].value.class = "future_object" => values[k].value.of \in Calls
  <2> SUFFICES ASSUME NEW k \in DOMAIN values, values[k].value.class = "future_object"
               PROVE  values[k].value.of \in Calls
    OBVIOUS
  <2>1. values[k].value \in Argument(s[k].class)
    BY <1>3
  <2>2. ASSUME NEW class, NEW x \in Argument(class), x.class = "future_object"
        PROVE  x.of \in Calls
    <3>1. CASE class \in {"future_object", "future_object_path"}
      BY <3>1, <2>2 DEF Argument
    <3>2. CASE class \notin {"future_object", "future_object_path"}
      <4>1. x = [class |-> class, of |-> class]
        BY <3>2, <2>2 DEF Argument
      <4>2. QED
        BY <4>1, <3>2, <2>2
    <3>3. QED
      BY <3>1, <3>2
  <2>3. QED
    BY <2>1, <2>2
<1>5. \A k \in Positions : FormalArguments[k].value.class # "future_object"
  BY DEF FormalArguments
<1> HIDE DEF args
<1>6. Len(args) \in Nat /\ DOMAIN args = 1..Len(args)
  BY <1>2, ListShape
<1>7. \A i \in DOMAIN args : i \in 1..Len(Formals)
  BY <1>2, <1>6, SubmissionAssumption
<1>8. \A i \in DOMAIN args : args[i].value.class = "future_object" => args[i].value.of \in Calls
  BY Zenon, <1>2, <1>4, <1>5
<1>9. QED
  BY <1>2, <1>6, <1>7, <1>8 DEF args

\* Facts about the calls made so far.
LEMMA CallFacts ==
  ASSUME TypeOK, ListInv
  PROVE  /\ Len(calls) \in Nat /\ DOMAIN calls = 1..Len(calls) /\ DOMAIN params = DOMAIN calls
         /\ \A n \in DOMAIN calls : n \in Calls /\ calls[n].task \in Tasks
<1>1. Len(calls) \in Nat /\ DOMAIN calls = 1..Len(calls)
  BY ListShape DEF ListInv
<1>2. DOMAIN params = 1..Len(params)
  BY ListShape DEF ListInv
<1>3. \A n \in DOMAIN calls : n \in Calls
  BY <1>1, SubmissionAssumption DEF TypeOK, Calls
<1>4. QED
  BY <1>1, <1>2, <1>3 DEF TypeOK

\* The call of a decorated function, with the outcome e of its submission: only what is
\* handed to the runtime has all its argument files, and is registered.
CallsTo(t, values, e) ==
  LET n == Len(calls) + 1
      c == [task |-> t, values |-> values]
  IN /\ session = "started" /\ waiting = NotWaiting /\ n \in Calls
     /\ calls' = Append(calls, c)
     /\ \/ e = "rejected" /\ UNCHANGED <<markers, registered>>
        \/ Register(t)
     /\ \E ps : params' = Append(params, ps) /\ (e = "queued" => ps = Parameters(n, Matched(c), Returns(c)))
     /\ tstate' = [tstate EXCEPT ![n] = e]
     /\ DOMAIN file' = Paths
     /\ \A p \in Paths :
          IF \E i \in SerializedArguments(n, Matched(c)) : p = ArgPath(n, i)
          THEN e = "queued" => file'[p] = Term(Matched(c)[p.index].value)
          ELSE file'[p] = file[p]
     /\ UNCHANGED <<session, attempts, ran, waiting, got>>

\* A call that comes to its end is queued or, with info_only or a value that process_task
\* cannot convert, rejected.
LEMMA CallCompletes ==
  ASSUME NEW t, NEW values, Call(t, values), Len(calls) + 1 \in Calls
  PROVE  \E e \in {"queued", "rejected"} : CallsTo(t, values, e)
<1> DEFINE n == Len(calls) + 1
           c == [task |-> t, values |-> values]
<1>1. Matched(c) = MatchArguments(t, values) /\ Returns(c) = IF t.return_value THEN 1 ELSE 0
  BY DEF Matched, Returns
<1> DEFINE ps == Parameters(n, Matched(c), Returns(c))
           accepted == ~t.info_only /\ \A i \in DOMAIN ps : Convertible(ps[i])
           e == IF accepted THEN "queued" ELSE "rejected"
<1> HIDE DEF c, n
<1>2. /\ session = "started" /\ waiting = NotWaiting
      /\ calls' = Append(calls, c)
      /\ IF t.info_only THEN UNCHANGED <<markers, registered>> ELSE Register(t)
      /\ params' = Append(params, IF accepted THEN ps ELSE <<>>)
      /\ tstate' = [tstate EXCEPT ![n] = e]
      /\ file' = WithArguments(n, Matched(c), SerializedArguments(n, Matched(c)))
      /\ UNCHANGED <<session, attempts, ran, waiting, got>>
  BY <1>1 DEF Call, c, n
<1> HIDE DEF ps
<1>3. e \in {"queued", "rejected"} /\ (e = "queued" => accepted)
  OBVIOUS
<1>4. \E q : params' = Append(params, q) /\ (e = "queued" => q = ps)
  BY <1>2, <1>3
<1>5. (e = "rejected" /\ UNCHANGED <<markers, registered>>) \/ Register(t)
  BY <1>2
<1> HIDE DEF accepted, e
<1>6. /\ DOMAIN file' = Paths
      /\ \A p \in Paths :
           IF \E i \in SerializedArguments(n, Matched(c)) : p = ArgPath(n, i)
           THEN file'[p] = Term(Matched(c)[p.index].value) ELSE file'[p] = file[p]
  BY <1>2 DEF WithArguments
<1>7. CallsTo(t, values, e)
  BY <1>2, <1>4, <1>5, <1>6 DEF CallsTo, ps, c, n
<1>8. QED
  BY <1>3, <1>7

\* A call that stops at an argument that cannot be serialized is rejected, and leaves the
\* files of the other calls alone.
LEMMA CallStopped ==
  ASSUME NEW t, NEW values, CallStops(t, values), Len(calls) + 1 \in Calls
  PROVE  CallsTo(t, values, "rejected")
<1> DEFINE n == Len(calls) + 1
           c == [task |-> t, values |-> values]
           args == Matched(c)
           done(i) == {j \in SerializedArguments(n, args) : j < i}
<1>1. args = MatchArguments(t, values)
  BY DEF Matched
<1> HIDE DEF args
<1>2. /\ session = "started" /\ waiting = NotWaiting
      /\ calls' = Append(calls, c)
      /\ \E i \in SerializedArguments(n, args), rest \in {NoFile, Partial} :
           file' = [WithArguments(n, args, done(i)) EXCEPT ![ArgPath(n, i)] = rest]
      /\ params' = Append(params, <<>>)
      /\ tstate' = [tstate EXCEPT ![n] = "rejected"]
      /\ UNCHANGED <<session, markers, registered, attempts, ran, waiting, got>>
  BY <1>1 DEF CallStops
<1> HIDE DEF c, n
<1>3. PICK i \in SerializedArguments(n, args), rest \in {NoFile, Partial} :
           file' = [WithArguments(n, args, done(i)) EXCEPT ![ArgPath(n, i)] = rest]
  BY <1>2
<1> DEFINE F == WithArguments(n, args, done(i))
<1>4. /\ DOMAIN F = Paths
      /\ \A p \in Paths : ~(\E j \in SerializedArguments(n, args) : p = ArgPath(n, j)) => F[p] = file[p]
  BY DEF WithArguments
<1> HIDE DEF F, done
<1>5. /\ DOMAIN file' = Paths
      /\ \A p \in Paths : ~(\E j \in SerializedArguments(n, args) : p = ArgPath(n, j)) => file'[p] = file[p]
  BY <1>3, <1>4 DEF F
<1>6. QED
  BY <1>2, <1>5 DEF CallsTo, args, c, n

\* Every call is written with the values of one of the shapes, and is queued or rejected.
LEMMA CallEffect ==
  ASSUME TypeOK, ListInv, CallSome
  PROVE  \E t \in Tasks, s \in Shapes : \E values \in ArgumentLists(s), e \in {"queued", "rejected"} :
           CallsTo(t, values, e)
<1>1. PICK t \in Tasks, s \in Shapes :
        \E v \in [DOMAIN s -> UNION {ValuesOf(s[i].class) : i \in DOMAIN s}] :
          /\ \A i \in DOMAIN s : v[i] \in ValuesOf(s[i].class)
          /\ LET values == [i \in DOMAIN s |-> [name |-> s[i].name, value |-> v[i]]]
             IN Call(t, values) \/ CallStops(t, values)
  BY DEF CallSome
<1>2. PICK v \in [DOMAIN s -> UNION {ValuesOf(s[i].class) : i \in DOMAIN s}] :
        /\ \A i \in DOMAIN s : v[i] \in ValuesOf(s[i].class)
        /\ LET values == [i \in DOMAIN s |-> [name |-> s[i].name, value |-> v[i]]]
           IN Call(t, values) \/ CallStops(t, values)
  BY <1>1
<1> DEFINE values == [i \in DOMAIN s |-> [name |-> s[i].name, value |-> v[i]]]
<1>3. ASSUME NEW class PROVE ValuesOf(class) \subseteq Argument(class)
  <2>1. Futures(class) \subseteq Calls
    BY CallFacts DEF Futures
  <2>2. QED
    BY <2>1 DEF ValuesOf, Argument
<1>4. values \in ArgumentLists(s)
  <2>1. \A i \in DOMAIN s : v[i] \in Argument(s[i].class)
    BY <1>2, <1>3
  <2>2. v \in [DOMAIN s -> UNION {Argument(s[i].class) : i \in DOMAIN s}]
    BY <1>2, <2>1
  <2>3. QED
    BY <2>1, <2>2 DEF ArgumentLists
<1>5. Call(t, values) \/ CallStops(t, values)
  BY <1>2
<1> HIDE DEF values
<1>6. Len(calls) + 1 \in Calls
  BY <1>5, CallFacts, SubmissionAssumption DEF Call, CallStops, Calls
<1>7. \E e \in {"queued", "rejected"} : CallsTo(t, values, e)
  BY <1>5, <1>6, CallCompletes, CallStopped
<1>8. QED
  BY <1>4, <1>7

\* After a call: the earlier calls and their files are as they were.
LEMMA NewCall ==
  ASSUME TypeOK, ListInv, NEW t \in Tasks, NEW s \in Shapes, NEW values \in ArgumentLists(s),
         NEW e \in {"queued", "rejected"}, CallsTo(t, values, e)
  PROVE  LET n == Len(calls) + 1
             c == [task |-> t, values |-> values]
         IN /\ n \in Calls /\ n \notin DOMAIN calls /\ DOMAIN calls' = DOMAIN calls \union {n}
            /\ IsList(calls') /\ IsList(params') /\ Len(calls') = n /\ Len(params') = n
            /\ calls'[n] = c /\ (e = "queued" => params'[n] = Parameters(n, Matched(c), Returns(c)))
            /\ \A k \in DOMAIN calls : calls'[k] = calls[k] /\ params'[k] = params[k]
            /\ \A k \in Calls : tstate'[k] = IF k = n THEN e ELSE tstate[k]
            /\ \A k \in Calls : file'[RetPath(k)] = file[RetPath(k)]
            /\ \A k \in DOMAIN calls, i \in 1..Len(Formals) : file'[ArgPath(k, i)] = file[ArgPath(k, i)]
            /\ e = "queued" => \A i \in SerializedArguments(n, Matched(c)) :
                                  file'[ArgPath(n, i)] = Term(Matched(c)[i].value)
            /\ DOMAIN file' = Paths
<1> DEFINE n == Len(calls) + 1
           c == [task |-> t, values |-> values]
<1>1. /\ Len(calls) \in Nat /\ DOMAIN calls = 1..Len(calls) /\ DOMAIN params = DOMAIN calls
      /\ Len(params) = Len(calls) /\ IsList(calls) /\ IsList(params)
      /\ \A k \in DOMAIN calls : k \in Calls
  BY CallFacts DEF TypeOK, ListInv
<1>2. n \in Calls /\ n \notin DOMAIN calls /\ DOMAIN calls \union {n} = 1..Len(calls) + 1
  BY <1>1 DEF CallsTo
<1>3. /\ IsList(calls') /\ Len(calls') = n /\ DOMAIN calls' = 1..Len(calls) + 1 /\ calls'[n] = c
      /\ \A k \in DOMAIN calls : calls'[k] = calls[k]
  <2>1. calls' = Append(calls, c)
    BY DEF CallsTo
  <2> HIDE DEF c
  <2>2. QED
    BY <2>1, <1>1, Appended
<1>4. PICK ps : params' = Append(params, ps) /\ (e = "queued" => ps = Parameters(n, Matched(c), Returns(c)))
  BY DEF CallsTo
<1>5. /\ IsList(params') /\ Len(params') = n /\ params'[n] = ps
      /\ \A k \in DOMAIN calls : params'[k] = params[k]
  BY <1>1, <1>4, Appended
<1>6. \A k \in Calls : tstate'[k] = IF k = n THEN e ELSE tstate[k]
  BY <1>2 DEF CallsTo, TypeOK
<1>7. /\ DOMAIN file' = Paths
      /\ \A p \in Paths :
           IF \E i \in SerializedArguments(n, Matched(c)) : p = ArgPath(n, i)
           THEN e = "queued" => file'[p] = Term(Matched(c)[p.index].value)
           ELSE file'[p] = file[p]
  BY DEF CallsTo
<1>8. c.task \in Tasks /\ c.values \in ArgumentLists(s)
  OBVIOUS
<1> HIDE DEF c, n
<1>9. \A k \in Calls : file'[RetPath(k)] = file[RetPath(k)]
  BY <1>7, PathFacts
<1>10. \A k \in DOMAIN calls, i \in 1..Len(Formals) : file'[ArgPath(k, i)] = file[ArgPath(k, i)]
  <2> TAKE k \in DOMAIN calls, i \in 1..Len(Formals)
  <2>1. ArgPath(k, i) \in Paths /\ \A j : ArgPath(k, i) # ArgPath(n, j)
    BY <1>1, <1>2, PathFacts
  <2>2. QED
    BY <2>1, <1>7
<1>11. e = "queued" => \A i \in SerializedArguments(n, Matched(c)) : file'[ArgPath(n, i)] = Term(Matched(c)[i].value)
  <2> HAVE e = "queued"
  <2> TAKE i \in SerializedArguments(n, Matched(c))
  <2>1. i \in 1..Len(Formals)
    BY <1>8, MatchedShape DEF SerializedArguments
  <2>2. ArgPath(n, i) \in Paths /\ ArgPath(n, i).index = i
    BY <2>1, <1>2, PathFacts
  <2>3. QED
    BY <2>2, <1>7
<1>12. DOMAIN file' = Paths
  BY <1>7
<1>13. QED
  BY <1>2, <1>3, <1>4, <1>5, <1>6, <1>9, <1>10, <1>11, <1>12 DEF n, c

\* A queued task writes its return value to the path the future of its call names.
LEMMA ReturnIsOwn ==
  ASSUME TypeOK, ListInv, ParamInv, NEW n \in DOMAIN calls, tstate[n] = "queued", calls[n].task.return_value
  PROVE  ReturnPath(n) = RetPath(n)
<1>1. params[n] = Parameters(n, Matched(calls[n]), 1)
  BY DEF ParamInv, Returns
<1>2. PICK s \in Shapes : calls[n].values \in ArgumentLists(s)
  BY DEF ListInv
<1>3. IsList(Matched(calls[n]))
  BY <1>2, CallFacts, MatchedShape
<1>4. QED
  BY <1>1, <1>3, LastParameter DEF ReturnPath

\* What a step of the runtime may change.
LEMMA RunEffect ==
  ASSUME FactsInv, NEW n \in DOMAIN calls, RuntimeStep(n)
  PROVE  /\ UNCHANGED masterVars /\ tstate[n] = "queued"
         /\ \A k \in Calls : k # n => tstate'[k] = tstate[k] /\ ran'[k] = ran[k] /\ attempts'[k] = attempts[k]
         /\ tstate' \in [Calls -> {"none", "rejected", "queued", "done", "failed"}]
         /\ tstate'[n] \in {"queued", "failed", "done"}
         /\ tstate'[n] = "done" => Execute(n)
         /\ attempts' \in [Calls -> 0..MaxAttempts]
         /\ tstate'[n] = "queued" => attempts'[n] < MaxAttempts
         /\ ran' = [k \in Calls |-> ran'[k]]
         /\ tstate'[n] # "done" => ran'[n] = <<>>
         /\ DOMAIN file' = Paths
         /\ \A p \in Paths : p # RetPath(n) => file'[p] = file[p]
         /\ \/ file'[RetPath(n)] \in {NoFile, Partial}
            \/ tstate'[n] = "done" /\ file'[RetPath(n)] = [func |-> calls[n].task.func, args |-> ran'[n]]
<1>1. /\ n \in Calls /\ RetPath(n) \in Paths /\ DOMAIN file = Paths
      /\ tstate \in [Calls -> {"none", "rejected", "queued", "done", "failed"}]
      /\ attempts \in [Calls -> 0..MaxAttempts] /\ ran = [k \in Calls |-> ran[k]]
      /\ MaxAttempts \in Nat \ {0}
  BY CallFacts, PathFacts, SubmissionAssumption DEF FactsInv, TypeOK, StateInv
<1>2. tstate[n] = "queued"
  BY DEF RuntimeStep, Execute, Fail, Cancel, ReadyToRun
<1>3. attempts[n] < MaxAttempts /\ ran[n] = <<>> /\ file[RetPath(n)] \in {NoFile, Partial}
  BY <1>1, <1>2 DEF FactsInv, StateInv, FileInv
<1>4. ASSUME NEW x, calls[n].task.return_value, file' = [file EXCEPT ![ReturnPath(n)] = x]
      PROVE  /\ DOMAIN file' = Paths /\ file'[RetPath(n)] = x
             /\ \A p \in Paths : p # RetPath(n) => file'[p] = file[p]
  <2>1. file' = [file EXCEPT ![RetPath(n)] = x]
    BY <1>4, <1>2, ReturnIsOwn DEF FactsInv
  <2>2. QED
    BY <2>1, <1>1
<1>5. CASE Execute(n)
  <2> DEFINE binding == RBinding(calls[n].task, FunctionArgs(n))
             x == [func |-> calls[n].task.func, args |-> binding]
  <2>1. /\ ran' = [ran EXCEPT ![n] = binding] /\ tstate' = [tstate EXCEPT ![n] = "done"]
        /\ UNCHANGED <<masterVars, attempts>>
    BY <1>5 DEF Execute
  <2>2. \/ calls[n].task.return_value /\ file' = [file EXCEPT ![ReturnPath(n)] = x]
        \/ calls[n].task.return_value /\ file' = [file EXCEPT ![ReturnPath(n)] = Partial]
        \/ file' = file
    BY <1>5 DEF Execute
  <2> HIDE DEF binding, x
  <2>3. /\ DOMAIN file' = Paths /\ file'[RetPath(n)] \in {x, NoFile, Partial}
        /\ \A p \in Paths : p # RetPath(n) => file'[p] = file[p]
    BY <2>2, <1>1, <1>3, <1>4
  <2>4. ran'[n] = binding /\ tstate'[n] = "done" /\ UNCHANGED <<masterVars, attempts>>
    BY <2>1, <1>1
  <2>5. /\ \A k \in Calls : k # n => tstate'[k] = tstate[k] /\ ran'[k] = ran[k]
        /\ tstate' \in [Calls -> {"none", "rejected", "queued", "done", "failed"}]
        /\ ran' = [k \in Calls |-> ran'[k]]
    BY <2>1, <1>1
  <2>6. QED
    BY <1>1, <1>2, <1>5, <2>3, <2>4, <2>5 DEF x
<1>6. CASE Fail(n)
  <2>1. /\ attempts' = [attempts EXCEPT ![n] = attempts[n] + 1]
        /\ tstate' = [tstate EXCEPT ![n] = IF attempts'[n] < MaxAttempts THEN "queued" ELSE "failed"]
        /\ UNCHANGED <<masterVars, ran>>
    BY <1>6 DEF Fail
  <2>2. /\ DOMAIN file' = Paths /\ file'[RetPath(n)] \in {NoFile, Partial}
        /\ \A p \in Paths : p # RetPath(n) => file'[p] = file[p]
    <3>1. \/ calls[n].task.return_value /\ file' = [file EXCEPT ![ReturnPath(n)] = Partial]
          \/ file' = file
      BY <1>6 DEF Fail
    <3>2. QED
      BY <3>1, <1>1, <1>3, <1>4
  <2>3. /\ attempts' \in [Calls -> 0..MaxAttempts]
        /\ \A k \in Calls : k # n => attempts'[k] = attempts[k]
    BY <2>1, <1>1, <1>3
  <2>4. /\ tstate' \in [Calls -> {"none", "rejected", "queued", "done", "failed"}]
        /\ \A k \in Calls : k # n => tstate'[k] = tstate[k]
        /\ tstate'[n] \in {"queued", "failed"} /\ (tstate'[n] = "queued" => attempts'[n] < MaxAttempts)
    BY <2>1, <1>1
  <2>5. QED
    BY <1>1, <1>2, <1>3, <2>1, <2>2, <2>3, <2>4
<1>7. CASE Cancel(n)
  <2>1. tstate' = [tstate EXCEPT ![n] = "failed"] /\ UNCHANGED <<masterVars, file, attempts, ran>>
    BY <1>7 DEF Cancel
  <2>2. /\ tstate' \in [Calls -> {"none", "rejected", "queued", "done", "failed"}]
        /\ \A k \in Calls : k # n => tstate'[k] = tstate[k]
        /\ tstate'[n] = "failed"
    BY <2>1, <1>1
  <2>3. QED
    BY <1>1, <1>2, <1>3, <2>1, <2>2
<1>8. QED
  BY <1>5, <1>6, <1>7 DEF RuntimeStep

\* The steps of the master that touch neither tasks nor files nor results.
Quiet == UNCHANGED <<calls, params, file, markers, registered, tstate, attempts, ran, got>>

\* The kinds of steps.
LEMMA StepKinds ==
  ASSUME [Next]_vars
  PROVE  Quiet \/ WaitStep \/ CallSome \/ \E n \in DOMAIN calls : RuntimeStep(n)
<1>1. compss_start \/ wait_on \/ barrier \/ compss_stop \/ Unblock \/ UNCHANGED vars => Quiet
  BY DEF Quiet, compss_start, wait_on, barrier, compss_stop, Block, Unblock, vars
<1>2. QED
  BY Zenon, <1>1 DEF Next

\* What a step leaves to the calls already made.
LEMMA Stable ==
  ASSUME FactsInv, [Next]_vars, NEW k \in DOMAIN calls
  PROVE  /\ k \in DOMAIN calls' /\ calls'[k] = calls[k] /\ params'[k] = params[k]
         /\ tstate'[k] = "rejected" <=> tstate[k] = "rejected"
         /\ tstate[k] = "done" => tstate'[k] = "done" /\ ran'[k] = ran[k]
         /\ tstate[k] # "done" /\ tstate'[k] = "done" => Execute(k)
<1>1. TypeOK /\ ListInv /\ k \in Calls
  BY CallFacts DEF FactsInv
<1>2. CASE Quiet \/ WaitStep
  BY <1>2 DEF Quiet, WaitStep, Receive
<1>3. CASE CallSome
  <2>1. PICK t \in Tasks, s \in Shapes : \E values \in ArgumentLists(s), e \in {"queued", "rejected"} :
               CallsTo(t, values, e)
    BY <1>1, <1>3, CallEffect
  <2>2. PICK values \in ArgumentLists(s), e \in {"queued", "rejected"} : CallsTo(t, values, e)
    BY <2>1
  <2>3. /\ k # Len(calls) + 1 /\ k \in DOMAIN calls' /\ calls'[k] = calls[k] /\ params'[k] = params[k]
        /\ tstate'[k] = IF k = Len(calls) + 1 THEN e ELSE tstate[k]
    BY <1>1, <2>2, NewCall
  <2>4. ran' = ran
    BY <2>2 DEF CallsTo
  <2>5. QED
    BY <2>3, <2>4
<1>4. CASE \E n \in DOMAIN calls : RuntimeStep(n)
  <2>1. PICK n \in DOMAIN calls : RuntimeStep(n)
    BY <1>4
  <2>2. /\ UNCHANGED masterVars /\ tstate[n] = "queued"
        /\ k # n => tstate'[k] = tstate[k] /\ ran'[k] = ran[k]
        /\ tstate'[n] \in {"queued", "failed", "done"} /\ (tstate'[n] = "done" => Execute(n))
    BY <1>1, <2>1, RunEffect
  <2>3. calls' = calls /\ params' = params
    BY <2>2 DEF masterVars
  <2>4. QED
    BY <2>2, <2>3
<1>5. QED
  BY <1>2, <1>3, <1>4, StepKinds

\* A complete call reads its own arguments: scalars by value, objects from the files the
\* master wrote for them, futures from the files of their tasks, which have ended well.
LEMMA ReadsOwnArguments ==
  ASSUME FactsInv, NEW n \in DOMAIN calls, tstate[n] = "queued", \A p \in Inputs(n) : Readable(p),
         Complete(calls[n])
  PROVE  /\ FunctionArgs(n) = MatchedArgs(calls[n])
         /\ \A i \in DOMAIN Matched(calls[n]) :
              Matched(calls[n])[i].value.class = "future_object" =>
                /\ Matched(calls[n])[i].value.of \in DOMAIN calls
                /\ tstate[Matched(calls[n])[i].value.of] = "done"
<1> DEFINE args == Matched(calls[n])
           m == Len(args)
           r == Returns(calls[n])
           ps == params[n]
<1>1. PICK s \in Shapes : calls[n].values \in ArgumentLists(s)
  BY DEF ListInv, FactsInv
<1>2. /\ IsList(args) /\ m \in Nat /\ DOMAIN args = 1..m
      /\ \A i \in DOMAIN args : args[i].value.class = "future_object" => args[i].value.of \in Calls
      /\ \A i \in DOMAIN args : args[i].value.class # "symbol"
  BY <1>1, CallFacts, MatchedShape DEF FactsInv, Complete
<1>3. r \in {0, 1} /\ ps = Parameters(n, args, r)
  BY DEF FactsInv, ParamInv, Returns
<1>4. \A i \in DOMAIN args : Classify(args[i].value).content = "object" => file[ArgPath(n, i)] = Term(args[i].value)
  BY <1>2 DEF FactsInv, ArgInv, SerializedArguments
<1> HIDE DEF args, r
<1>5. /\ IsList(ps) /\ Len(ps) = m + r
      /\ \A i \in 1..m : /\ ps[i].value = Processed(n, i, args[i].value)
                         /\ ps[i].name = args[i].name
                         /\ ps[i].type = Classify(args[i].value).type
                         /\ ps[i].direction = 0
  <2>1. ps = Parameters(n, args, r)
    BY <1>3
  <2> HIDE DEF m, ps
  <2>2. /\ IsList(ps) /\ Len(ps) = Len(args) + r
        /\ \A i \in 1..Len(args) : /\ ps[i].value = Processed(n, i, args[i].value)
                           /\ ps[i].name = args[i].name
                           /\ ps[i].type = Classify(args[i].value).type
                           /\ ps[i].direction = 0
    BY <2>1, <1>2, <1>3, AllParameters
  <2>3. QED
    BY <2>2 DEF m
<1> HIDE DEF m
<1>6. DOMAIN FunctionParams(n) = 1..m
  <2>1. PICK S : ps \in Seq(S)
    BY <1>5 DEF IsList
  <2>2. FunctionParams(n) = SubSeq(ps, 1, Len(ps) - r)
    BY DEF FunctionParams, Returns, r
  <2>3. Len(ps) - r = m /\ m <= Len(ps)
    BY <1>2, <1>3, <1>5
  <2> HIDE DEF ps
  <2>4. SubSeq(ps, 1, m) \in Seq(S) /\ Len(SubSeq(ps, 1, m)) = m
    BY <2>1, <2>3, <1>2
  <2>5. QED
    BY <2>2, <2>3, <2>4
<1>7. ASSUME NEW i \in 1..m, NEW v, v = args[i].value
      PROVE  /\ (IF ps[i].type = 10 THEN file[ps[i].value.of] ELSE [data |-> ps[i].value.of]) = Current(v)
             /\ v.class = "future_object" => v.of \in DOMAIN calls /\ tstate[v.of] = "done"
  <2>1. /\ ps[i].value = Processed(n, i, v) /\ ps[i].type = Classify(v).type /\ ps[i].direction = 0
        /\ v.class # "symbol" /\ (v.class = "future_object" => v.of \in Calls)
    BY <1>2, <1>5, <1>7
  <2>2. i \in DOMAIN ps
    BY <1>2, <1>3, <1>5, ListShape
  <2>3. CASE v.class \in {"integer", "character"}
    <3>1. Classify(v).type # 10 /\ Classify(v).content = ""
      BY <2>3 DEF Classify
    <3>2. Processed(n, i, v) = v /\ Current(v) = [data |-> v.of]
      BY <3>1, <2>3 DEF Processed, Current, Term
    <3>3. QED
      BY <2>1, <2>3, <3>1, <3>2
  <2>4. CASE v.class = "future_object"
    <3>1. Classify(v).type = 10 /\ Classify(v).content = "future_object"
      BY <2>4 DEF Classify
    <3>2. Processed(n, i, v).of = RetPath(v.of)
      BY <3>1 DEF Processed
    <3>3. RetPath(v.of) \in Inputs(n)
      BY <2>1, <2>2, <3>1, <3>2 DEF Inputs
    <3>4. file[RetPath(v.of)] \notin {NoFile, Partial}
      BY <3>3 DEF Readable
    <3>5. tstate[v.of] = "done" /\ file[RetPath(v.of)] = ResultOf(v.of)
      BY <3>4, <2>1, <2>4 DEF FactsInv, FileInv
    <3>6. v.of \in DOMAIN calls
      BY <3>5, <2>1, <2>4 DEF FactsInv, StateInv
    <3>7. QED
      BY <2>1, <2>4, <3>1, <3>2, <3>5, <3>6 DEF Current
  <2>5. CASE v.class \notin {"integer", "character", "future_object"}
    <3>1. Classify(v).type = 10 /\ Classify(v).content = "object"
      BY <2>5 DEF Classify
    <3>2. Processed(n, i, v).of = ArgPath(n, i)
      BY <3>1, <2>1 DEF Processed
    <3>3. file[ArgPath(n, i)] = Term(v)
      BY <3>1, <1>2, <1>4, <1>7
    <3>4. QED
      BY <2>1, <2>5, <3>1, <3>2, <3>3 DEF Current
  <2>6. QED
    BY <2>3, <2>4, <2>5
<1>8. FunctionArgs(n) = MatchedArgs(calls[n])
  <2>1. FunctionArgs(n) = [i \in 1..m |->
           [name |-> ps[i].name,
            term |-> IF ps[i].type = 10 THEN file[ps[i].value.of] ELSE [data |-> ps[i].value.of]]]
    BY <1>6 DEF FunctionArgs
  <2>2. MatchedArgs(calls[n]) = [i \in 1..m |-> [name |-> args[i].name, term |-> Current(args[i].value)]]
    BY <1>2 DEF MatchedArgs, args
  <2>3. \A i \in 1..m : /\ ps[i].name = args[i].name
                        /\ (IF ps[i].type = 10 THEN file[ps[i].value.of] ELSE [data |-> ps[i].value.of])
                             = Current(args[i].value)
    BY <1>5, <1>7
  <2> HIDE DEF ps
  <2>4. QED
    BY <2>1, <2>2, <2>3
<1>9. QED
  BY <1>2, <1>7, <1>8 DEF args

-----------------------------------------------------------------------------
(***************************************************************************)
(* The invariant is inductive.                                             *)
(***************************************************************************)
SessionTypes ==
  /\ session \in {"fresh", "started", "stopped"}
  /\ waiting.kind \in {"none", "object", "path", "list", "barrier", "stop"}

TaskTypes ==
  /\ Len(calls) <= MaxCalls /\ Len(params) = Len(calls)
  /\ \A n \in DOMAIN calls : calls[n].task \in Tasks
  /\ DOMAIN file = Paths
  /\ registered \subseteq {<<t.func, t.constraint>> : t \in Tasks}
  /\ tstate \in [Calls -> {"none", "rejected", "queued", "done", "failed"}]
  /\ attempts \in [Calls -> 0..MaxAttempts]

\* The type invariant, in its parts.
LEMMA TypeParts ==
  SessionTypes /\ TaskTypes /\ StateInv => TypeOK
<1>1. SessionTypes /\ TaskTypes /\ StateInv => \A n \in Calls : tstate[n] = "failed" => ran[n] = <<>>
  BY DEF StateInv
<1>2. QED
  BY <1>1 DEF SessionTypes, TaskTypes, TypeOK

\* The same of the next state.
LEMMA TypePartsNext == SessionTypes' /\ TaskTypes' /\ StateInv' => TypeOK'
  BY TypeParts, PTL

\* The session and what the master waits for.
LEMMA SessionStep ==
  ASSUME TypeOK, WaitInv, [Next]_vars
  PROVE  SessionTypes'
<1>1. SessionTypes
  BY DEF TypeOK, SessionTypes
<1>2. NotWaiting.kind = "none"
  BY DEF NotWaiting
<1>3. CASE compss_start \/ UNCHANGED vars
  BY <1>1, <1>3 DEF compss_start, SessionTypes, vars
<1>4. CASE wait_on \/ barrier \/ compss_stop
  BY <1>1, <1>4 DEF wait_on, barrier, compss_stop, Block, SessionTypes
<1>5. CASE Unblock
  BY <1>1, <1>2, <1>5 DEF Unblock, SessionTypes
<1>6. CASE WaitStep
  <2>1. PICK values : session' = session /\ (waiting' = NotWaiting \/ waiting' = [waiting EXCEPT !.values = values])
    BY <1>6 DEF WaitStep, Receive
  <2>2. waiting' = [waiting EXCEPT !.values = values] => waiting'.kind = waiting.kind
    <3>1. waiting = [kind |-> waiting.kind, of |-> waiting.of, values |-> waiting.values]
      BY DEF WaitInv
    <3>2. QED
      BY <3>1
  <2>3. QED
    BY <1>1, <1>2, <2>1, <2>2 DEF SessionTypes
<1>7. CASE CallSome
  BY <1>1, <1>7 DEF CallSome, Call, CallStops, SessionTypes
<1>8. CASE \E n \in DOMAIN calls : RuntimeStep(n)
  BY <1>1, <1>8 DEF RuntimeStep, Execute, Fail, Cancel, masterVars, SessionTypes
<1>9. QED
  BY Zenon, <1>3, <1>4, <1>5, <1>6, <1>7, <1>8 DEF Next

\* A call keeps the facts about calls, parameters, tasks and files.
LEMMA FactsCall ==
  ASSUME FactsInv, CallSome
  PROVE  (TaskTypes /\ ListInv /\ StateInv /\ ParamInv /\ FileInv /\ ArgInv)'
<1>1. TypeOK /\ ListInv /\ \A k \in DOMAIN calls : k \in Calls
  BY CallFacts DEF FactsInv
<1>2. PICK t \in Tasks, s \in Shapes : \E values \in ArgumentLists(s), e \in {"queued", "rejected"} :
               CallsTo(t, values, e)
  BY <1>1, CallEffect
<1>3. PICK values \in ArgumentLists(s), e \in {"queued", "rejected"} : CallsTo(t, values, e)
  BY <1>2
<1> DEFINE n == Len(calls) + 1
           c == [task |-> t, values |-> values]
<1>4. /\ n \in Calls /\ n \notin DOMAIN calls /\ DOMAIN calls' = DOMAIN calls \union {n}
      /\ IsList(calls') /\ IsList(params') /\ Len(calls') = n /\ Len(params') = n
      /\ calls'[n] = c /\ (e = "queued" => params'[n] = Parameters(n, Matched(c), Returns(c)))
      /\ \A k \in DOMAIN calls : calls'[k] = calls[k] /\ params'[k] = params[k]
      /\ \A k \in Calls : tstate'[k] = IF k = n THEN e ELSE tstate[k]
      /\ \A k \in Calls : file'[RetPath(k)] = file[RetPath(k)]
      /\ \A k \in DOMAIN calls, i \in 1..Len(Formals) : file'[ArgPath(k, i)] = file[ArgPath(k, i)]
      /\ e = "queued" =>
           \A i \in SerializedArguments(n, Matched(c)) : file'[ArgPath(n, i)] = Term(Matched(c)[i].value)
      /\ DOMAIN file' = Paths
  BY <1>1, <1>3, NewCall
<1>5. /\ c.task = t /\ c.values = values
      /\ attempts' = attempts /\ ran' = ran /\ tstate' = [tstate EXCEPT ![n] = e]
      /\ UNCHANGED registered \/ Register(t)
  BY <1>3 DEF CallsTo
<1> HIDE DEF n, c
<1>6. TaskTypes'
  <2>1. registered' \subseteq {<<u.func, u.constraint>> : u \in Tasks}
    BY <1>5, <1>1 DEF Register, TypeOK
  <2>2. tstate' \in [Calls -> {"none", "rejected", "queued", "done", "failed"}]
    BY <1>5, <1>1 DEF TypeOK
  <2>3. n <= MaxCalls /\ \A k \in DOMAIN calls' : calls'[k].task \in Tasks
    BY <1>1, <1>4, <1>5, SubmissionAssumption DEF TypeOK, Calls
  <2>4. attempts' \in [Calls -> 0..MaxAttempts]
    BY <1>1, <1>5 DEF TypeOK
  <2>5. QED
    BY <1>4, <2>1, <2>2, <2>3, <2>4 DEF TaskTypes
<1>7. ListInv'
  <2>1. \A k \in DOMAIN calls' : \E z \in Shapes : calls'[k].values \in ArgumentLists(z)
    BY <1>1, <1>4, <1>5 DEF ListInv
  <2>2. QED
    BY <2>1, <1>4 DEF ListInv
<1>8. StateInv'
  <2>1. StateInv /\ tstate[n] = "none" /\ attempts[n] < MaxAttempts
    BY <1>4 DEF FactsInv, StateInv
  <2>2. \A k \in Calls :
          /\ k \notin DOMAIN calls' => tstate'[k] = "none"
          /\ tstate'[k] \in {"none", "queued"} => attempts'[k] < MaxAttempts
          /\ tstate'[k] # "done" => ran'[k] = <<>>
    BY <2>1, <1>4, <1>5 DEF StateInv
  <2>3. QED
    BY <2>1, <2>2, <1>5 DEF StateInv
<1>9. ParamInv'
  <2> SUFFICES ASSUME NEW k \in DOMAIN calls', tstate'[k] # "rejected"
               PROVE  params'[k] = Parameters(k, Matched(calls'[k]), Returns(calls'[k]))
    BY DEF ParamInv, Matched, Returns
  <2>1. CASE k = n
    BY <2>1, <1>4
  <2>2. CASE k # n
    <3>1. k \in DOMAIN calls /\ tstate[k] # "rejected" /\ calls'[k] = calls[k] /\ params'[k] = params[k]
      BY <2>2, <1>1, <1>4
    <3>2. params[k] = Parameters(k, Matched(calls[k]), Returns(calls[k]))
      BY <3>1 DEF FactsInv, ParamInv
    <3>3. QED
      BY <3>1, <3>2
  <2>3. QED
    BY <2>1, <2>2
<1>10. FileInv'
  <2> SUFFICES ASSUME NEW k \in Calls
               PROVE  \/ file'[RetPath(k)] \in {NoFile, Partial}
                      \/ tstate'[k] = "done" /\ file'[RetPath(k)] = ResultOf(k)'
    BY DEF FileInv, RetPath, NoFile, Partial
  <2>1. CASE file[RetPath(k)] \in {NoFile, Partial}
    BY <2>1, <1>4
  <2>2. CASE file[RetPath(k)] \notin {NoFile, Partial}
    <3>1. tstate[k] = "done" /\ file[RetPath(k)] = ResultOf(k)
      BY <2>2 DEF FactsInv, FileInv
    <3>2. k \in DOMAIN calls /\ k # n
      BY <3>1, <1>4 DEF FactsInv, StateInv
    <3>3. ResultOf(k)' = ResultOf(k)
      BY <3>2, <1>4, <1>5 DEF ResultOf
    <3>4. QED
      BY <3>1, <3>2, <3>3, <1>4
  <2>3. QED
    BY <2>1, <2>2
<1>11. ArgInv'
  <2> SUFFICES ASSUME NEW k \in DOMAIN calls', tstate'[k] # "rejected",
                      NEW i \in SerializedArguments(k, Matched(calls'[k]))
               PROVE  file'[ArgPath(k, i)] = Term(Matched(calls'[k])[i].value)
    BY DEF ArgInv, Matched
  <2>1. CASE k = n
    BY <2>1, <1>4
  <2>2. CASE k # n
    <3>1. k \in DOMAIN calls /\ calls'[k] = calls[k] /\ tstate[k] # "rejected"
      BY <2>2, <1>1, <1>4
    <3>2. i \in SerializedArguments(k, Matched(calls[k]))
      BY <3>1
    <3>3. file[ArgPath(k, i)] = Term(Matched(calls[k])[i].value)
      BY <3>1, <3>2 DEF FactsInv, ArgInv
    <3>4. i \in 1..Len(Formals)
      <4>1. PICK z \in Shapes : calls[k].values \in ArgumentLists(z)
        BY <1>1, <3>1 DEF ListInv
      <4>2. QED
        BY <4>1, <3>1, <3>2, <1>1, CallFacts, MatchedShape DEF SerializedArguments
    <3>5. QED
      BY <1>4, <3>1, <3>3, <3>4
  <2>3. QED
    BY <2>1, <2>2
<1>12. QED
  BY <1>6, <1>7, <1>8, <1>9, <1>10, <1>11

\* A step of the runtime keeps them.
LEMMA FactsRun ==
  ASSUME FactsInv, NEW n \in DOMAIN calls, RuntimeStep(n)
  PROVE  (TaskTypes /\ ListInv /\ StateInv /\ ParamInv /\ FileInv /\ ArgInv)'
<1>1. /\ UNCHANGED masterVars /\ tstate[n] = "queued"
      /\ \A k \in Calls : k # n => tstate'[k] = tstate[k] /\ ran'[k] = ran[k] /\ attempts'[k] = attempts[k]
      /\ tstate' \in [Calls -> {"none", "rejected", "queued", "done", "failed"}]
      /\ tstate'[n] \in {"queued", "failed", "done"}
      /\ attempts' \in [Calls -> 0..MaxAttempts]
      /\ tstate'[n] = "queued" => attempts'[n] < MaxAttempts
      /\ ran' = [k \in Calls |-> ran'[k]]
      /\ tstate'[n] # "done" => ran'[n] = <<>>
      /\ DOMAIN file' = Paths
      /\ \A p \in Paths : p # RetPath(n) => file'[p] = file[p]
      /\ \/ file'[RetPath(n)] \in {NoFile, Partial}
         \/ tstate'[n] = "done" /\ file'[RetPath(n)] = [func |-> calls[n].task.func, args |-> ran'[n]]
  BY RunEffect
<1>2. calls' = calls /\ params' = params /\ registered' = registered
  BY <1>1 DEF masterVars
<1>3. TypeOK /\ ListInv /\ \A k \in DOMAIN calls : k \in Calls
  BY CallFacts DEF FactsInv
<1>4. TaskTypes'
  BY <1>1, <1>2, <1>3 DEF TypeOK, TaskTypes
<1>5. ListInv'
  BY <1>2, <1>3 DEF ListInv
<1>6. StateInv'
  <2>1. StateInv
    BY DEF FactsInv
  <2>2. \A k \in Calls :
          /\ k \notin DOMAIN calls' => tstate'[k] = "none"
          /\ tstate'[k] \in {"none", "queued"} => attempts'[k] < MaxAttempts
          /\ tstate'[k] # "done" => ran'[k] = <<>>
    BY <2>1, <1>1, <1>2 DEF StateInv
  <2>3. QED
    BY <2>1, <2>2, <1>1, <1>2 DEF StateInv
<1>7. ParamInv'
  <2> SUFFICES ASSUME NEW k \in DOMAIN calls, tstate'[k] # "rejected"
               PROVE  params[k] = Parameters(k, Matched(calls[k]), Returns(calls[k]))
    BY <1>2 DEF ParamInv, Matched, Returns
  <2>1. tstate[k] # "rejected"
    BY <1>1, <1>3
  <2>2. QED
    BY <2>1 DEF FactsInv, ParamInv
<1>8. FileInv'
  <2> SUFFICES ASSUME NEW k \in Calls
               PROVE  \/ file'[RetPath(k)] \in {NoFile, Partial}
                      \/ tstate'[k] = "done" /\ file'[RetPath(k)] = ResultOf(k)'
    BY DEF FileInv, RetPath, NoFile, Partial
  <2>1. CASE k = n
    BY <2>1, <1>1, <1>2 DEF ResultOf
  <2>2. CASE k # n
    <3>1. file'[RetPath(k)] = file[RetPath(k)] /\ tstate'[k] = tstate[k] /\ ResultOf(k)' = ResultOf(k)
      BY <2>2, <1>1, <1>2, PathFacts DEF ResultOf
    <3>2. QED
      BY <3>1 DEF FactsInv, FileInv
  <2>3. QED
    BY <2>1, <2>2
<1>9. ArgInv'
  <2> SUFFICES ASSUME NEW k \in DOMAIN calls, tstate'[k] # "rejected",
                      NEW i \in SerializedArguments(k, Matched(calls[k]))
               PROVE  file'[ArgPath(k, i)] = Term(Matched(calls[k])[i].value)
    BY <1>2 DEF ArgInv, Matched
  <2>0. tstate[k] # "rejected"
    BY <1>1, <1>3
  <2>1. PICK z \in Shapes : calls[k].values \in ArgumentLists(z)
    BY <1>3 DEF ListInv
  <2>2. i \in 1..Len(Formals)
    BY <2>1, <1>3, CallFacts, MatchedShape DEF SerializedArguments
  <2>3. file'[ArgPath(k, i)] = file[ArgPath(k, i)]
    BY <2>2, <1>1, <1>3, PathFacts
  <2>4. QED
    BY <2>0, <2>3 DEF FactsInv, ArgInv
<1>10. QED
  BY <1>4, <1>5, <1>6, <1>7, <1>8, <1>9

\* A call just made is queued or rejected.
LEMMA NewState ==
  ASSUME FactsInv, [Next]_vars, NEW k \in DOMAIN calls', k \notin DOMAIN calls
  PROVE  CallSome /\ tstate'[k] \in {"queued", "rejected"}
<1>1. TypeOK /\ ListInv
  BY DEF FactsInv
<1>2. CallSome
  <2>1. (Quiet \/ WaitStep) => calls' = calls
    BY DEF Quiet, WaitStep, Receive
  <2>2. (\E n \in DOMAIN calls : RuntimeStep(n)) => calls' = calls
    BY DEF RuntimeStep, Execute, Fail, Cancel, masterVars
  <2>3. QED
    BY <2>1, <2>2, StepKinds
<1>3. PICK t \in Tasks, s \in Shapes : \E values \in ArgumentLists(s), e \in {"queued", "rejected"} :
               CallsTo(t, values, e)
  BY <1>1, <1>2, CallEffect
<1>4. PICK values \in ArgumentLists(s), e \in {"queued", "rejected"} : CallsTo(t, values, e)
  BY <1>3
<1>5. k = Len(calls) + 1 /\ k \in Calls /\ tstate'[k] = e
  <2> DEFINE n == Len(calls) + 1
  <2>1. n \in Calls /\ DOMAIN calls' = DOMAIN calls \union {n} /\ tstate'[n] = e
    <3>1. n \in Calls /\ DOMAIN calls' = DOMAIN calls \union {n}
      BY <1>1, <1>4, NewCall
    <3>2. tstate' = [tstate EXCEPT ![n] = e] /\ DOMAIN tstate = Calls
      BY <1>1, <1>4 DEF CallsTo, TypeOK
    <3> HIDE DEF n
    <3>3. QED
      BY <3>1, <3>2
  <2> HIDE DEF n
  <2>2. k = n
    BY <2>1
  <2>3. QED
    BY <2>1, <2>2 DEF n
<1>6. QED
  BY <1>2, <1>5

\* The result of a task that is done does not change.
LEMMA ResultStable ==
  ASSUME FactsInv, [Next]_vars, NEW k \in DOMAIN calls, tstate[k] = "done"
  PROVE  tstate'[k] = "done" /\ ResultOf(k)' = ResultOf(k)
  BY Stable DEF ResultOf

\* A lost result stays lost: its task has ended, and nobody writes its file.
LEMMA LostStable ==
  ASSUME FactsInv, [Next]_vars, NEW n \in DOMAIN calls, Lost(n)
  PROVE  Lost(n)'
<1>1. TypeOK /\ ListInv /\ n \in Calls /\ tstate[n] \in {"done", "failed"}
  BY CallFacts DEF FactsInv, Lost, Ended
<1>2. tstate'[n] = tstate[n] /\ file'[RetPath(n)] = file[RetPath(n)]
  <2>1. CASE Quiet \/ WaitStep
    BY <2>1 DEF Quiet, WaitStep, Receive
  <2>2. CASE CallSome
    <3>1. PICK t \in Tasks, s \in Shapes : \E values \in ArgumentLists(s), e \in {"queued", "rejected"} :
                 CallsTo(t, values, e)
      BY <1>1, <2>2, CallEffect
    <3>2. PICK values \in ArgumentLists(s), e \in {"queued", "rejected"} : CallsTo(t, values, e)
      BY <3>1
    <3>3. /\ n # Len(calls) + 1 /\ file'[RetPath(n)] = file[RetPath(n)]
          /\ tstate'[n] = IF n = Len(calls) + 1 THEN e ELSE tstate[n]
      BY <1>1, <3>2, NewCall
    <3>4. QED
      BY <3>3
  <2>3. CASE \E k \in DOMAIN calls : RuntimeStep(k)
    <3>1. PICK k \in DOMAIN calls : RuntimeStep(k)
      BY <2>3
    <3>2. /\ tstate[k] = "queued" /\ (n # k => tstate'[n] = tstate[n])
          /\ \A p \in Paths : p # RetPath(k) => file'[p] = file[p]
      BY <1>1, <3>1, RunEffect
    <3>3. n # k
      BY <1>1, <3>2
    <3>4. RetPath(n) \in Paths /\ RetPath(n) # RetPath(k)
      BY <1>1, <3>3, PathFacts
    <3>5. QED
      BY <3>2, <3>3, <3>4
  <2>4. QED
    BY <2>1, <2>2, <2>3, StepKinds
<1>3. RetPath(n)' = RetPath(n)
  BY DEF RetPath
<1>4. QED
  BY <1>1, <1>2, <1>3 DEF Lost, Ended, Readable

\* What wait_on has made of a future stays right.
LEMMA DeliveredStable ==
  ASSUME FactsInv, [Next]_vars, NEW kind, NEW n \in DOMAIN calls, NEW entry, Delivered(kind, n, entry)
  PROVE  Delivered(kind, n, entry)'
<1>1. calls'[n] = calls[n]
  BY Stable
<1>2. CASE kind = "list" /\ calls[n].task.return_type = "element"
  BY <1>1, <1>2 DEF Delivered, ElementFuture
<1>3. CASE ~(kind = "list" /\ calls[n].task.return_type = "element")
  <2>1. CASE tstate[n] = "done" /\ entry = ResultOf(n)
    BY <1>1, <1>3, <2>1, ResultStable DEF Delivered
  <2>2. CASE kind = "path" /\ entry = [path |-> RetPath(n)] /\ Lost(n)
    <3>1. Lost(n)'
      BY <2>2, LostStable
    <3>2. RetPath(n)' = RetPath(n)
      BY DEF RetPath
    <3>3. QED
      BY <1>1, <1>3, <2>2, <3>1, <3>2 DEF Delivered
  <2>3. QED
    BY <1>3, <2>1, <2>2 DEF Delivered
<1>4. QED
  BY <1>2, <1>3

\* A round of wait_on fails only when the result of its future is lost.
LEMMA FetchedValue ==
  ASSUME FactsInv, NEW n \in DOMAIN calls, Ended(n) \/ Skipped(n),
         waiting.kind \in {"object", "path", "list"}
  PROVE  /\ Fetched(n) = Error => waiting.kind \in {"object", "list"} /\ Lost(n)
         /\ Fetched(n) # Error => Delivered(waiting.kind, n, Fetched(n))
<1>1. n \in Calls
  BY CallFacts DEF FactsInv
<1>2. CASE Skipped(n)
  <2>1. Fetched(n) = ElementFuture(n) /\ ElementFuture(n) # Error
    BY <1>2 DEF Fetched, ElementFuture, Error
  <2>2. QED
    BY <1>2, <2>1 DEF Delivered, Skipped
<1>3. CASE ~Skipped(n) /\ Readable(RetPath(n))
  <2>1. Fetched(n) = file[RetPath(n)]
    BY <1>3 DEF Fetched
  <2>2. tstate[n] = "done" /\ file[RetPath(n)] = ResultOf(n)
    BY <1>1, <1>3 DEF FactsInv, FileInv, Readable
  <2>3. ResultOf(n) # Error
    BY DEF ResultOf, Error
  <2>4. QED
    BY <1>3, <2>1, <2>2, <2>3 DEF Delivered, Skipped
<1>4. CASE ~Skipped(n) /\ ~Readable(RetPath(n))
  <2>1. Lost(n)
    BY <1>4 DEF Lost
  <2>2. CASE waiting.kind = "path"
    <3>1. Fetched(n) = [path |-> RetPath(n)] /\ [path |-> RetPath(n)] # Error
      BY <1>4, <2>2 DEF Fetched, Error
    <3>2. QED
      BY <2>1, <2>2, <3>1 DEF Delivered
  <2>3. CASE waiting.kind # "path"
    BY <1>4, <2>1, <2>3 DEF Fetched
  <2>4. QED
    BY <2>2, <2>3
<1>5. QED
  BY <1>2, <1>3, <1>4

\* The future that wait_on has reached, in a wait that is not over.
LEMMA AwaitedCall ==
  ASSUME WaitInv, WaitStep
  PROVE  /\ Len(waiting.values) \in Nat /\ Len(waiting.of) \in Nat
         /\ DOMAIN waiting.values = 1..Len(waiting.values) /\ DOMAIN waiting.of = 1..Len(waiting.of)
         /\ Len(waiting.values) + 1 \in DOMAIN waiting.of
         /\ Awaited = waiting.of[Len(waiting.values) + 1] /\ Awaited \in DOMAIN calls
         /\ Ended(Awaited) \/ Skipped(Awaited)
         /\ waiting.kind \in {"object", "path", "list"} /\ Receive(Awaited)
<1>1. waiting.kind \in {"object", "path", "list"} /\ Receive(Awaited) /\ (Ended(Awaited) \/ Skipped(Awaited))
  BY DEF WaitStep
<1>2. /\ Len(waiting.values) \in Nat /\ Len(waiting.of) \in Nat
      /\ DOMAIN waiting.values = 1..Len(waiting.values) /\ DOMAIN waiting.of = 1..Len(waiting.of)
      /\ Len(waiting.values) < Len(waiting.of)
  BY <1>1, ListShape DEF WaitInv
<1>3. Len(waiting.values) + 1 \in DOMAIN waiting.of
  BY <1>2
<1>4. Awaited \in DOMAIN calls
  BY <1>3 DEF Awaited, WaitInv
<1>5. QED
  BY <1>1, <1>2, <1>3, <1>4 DEF Awaited

\* The values with that of the awaited future are what wait_on makes of the futures so far.
LEMMA ReceivedSoFar ==
  ASSUME FactsInv, WaitInv, WaitStep, Fetched(Awaited) # Error
  PROVE  LET values == Append(waiting.values, Fetched(Awaited))
         IN /\ IsList(values) /\ Len(values) = Len(waiting.values) + 1
            /\ DOMAIN values = 1..(Len(waiting.values) + 1)
            /\ values[Len(waiting.values) + 1] = Fetched(Awaited)
            /\ \A i \in DOMAIN values :
                 i \in DOMAIN waiting.of /\ Delivered(waiting.kind, waiting.of[i], values[i])
<1> DEFINE m == Len(waiting.values)
           values == Append(waiting.values, Fetched(Awaited))
<1>1. /\ m \in Nat /\ DOMAIN waiting.values = 1..m /\ m + 1 \in DOMAIN waiting.of
      /\ Awaited = waiting.of[m + 1]
  BY AwaitedCall
<1>2. Delivered(waiting.kind, Awaited, Fetched(Awaited))
  BY AwaitedCall, FetchedValue
<1>3. /\ IsList(values) /\ Len(values) = m + 1 /\ DOMAIN values = 1..(m + 1)
      /\ values[m + 1] = Fetched(Awaited)
      /\ \A i \in DOMAIN waiting.values : values[i] = waiting.values[i]
  BY Appended DEF WaitInv
<1> HIDE DEF values
<1>4. ASSUME NEW i \in DOMAIN values
      PROVE  i \in DOMAIN waiting.of /\ Delivered(waiting.kind, waiting.of[i], values[i])
  <2>1. CASE i \in DOMAIN waiting.values
    BY <1>3, <2>1 DEF WaitInv
  <2>2. CASE i = m + 1
    BY <1>1, <1>2, <1>3, <2>2
  <2>3. QED
    BY <1>1, <1>3, <1>4, <2>1, <2>2
<1>5. QED
  BY <1>3, <1>4 DEF values

\* What the master waits for are futures of calls that it has made, and what it has so far
\* are their results.
LEMMA WaitInvStep ==
  ASSUME FactsInv, WaitInv, [Next]_vars
  PROVE  WaitInv'
<1>0. \A k \in DOMAIN calls : k \in DOMAIN calls'
  BY Stable
<1>1. ASSUME waiting' = waiting PROVE WaitInv'
  <2>1. PICK w : w = waiting
    OBVIOUS
  <2>2. \A i \in DOMAIN w.values : i \in DOMAIN w.of /\ w.of[i] \in DOMAIN calls /\ Delivered(w.kind, w.of[i], w.values[i])
    BY <2>1 DEF WaitInv
  <2>3. \A i \in DOMAIN w.values : Delivered(w.kind, w.of[i], w.values[i])'
    BY <2>2, DeliveredStable
  <2>4. QED
    BY <1>0, <1>1, <2>1, <2>2, <2>3 DEF WaitInv
<1>2. ASSUME NEW kind, NEW S, NEW of \in Seq(S), waiting' = [kind |-> kind, of |-> of, values |-> <<>>],
             \A i \in DOMAIN of : of[i] \in DOMAIN calls,
             kind \in {"object", "path", "list"} => Len(of) > 0, kind = "object" => Len(of) = 1
      PROVE  WaitInv'
  <2>1. IsList(of) /\ waiting'.kind = kind /\ waiting'.of = of /\ waiting'.values = <<>>
    BY <1>2 DEF IsList
  <2>2. IsList(<<>>) /\ DOMAIN <<>> = {} /\ Len(<<>>) = 0
    <3>1. <<>> \in Seq({}) /\ DOMAIN <<>> = {} /\ Len(<<>>) = 0
      OBVIOUS
    <3>2. QED
      BY <3>1 DEF IsList
  <2>3. QED
    BY <1>0, <1>2, <2>1, <2>2 DEF WaitInv
<1>3. ASSUME waiting' = NotWaiting PROVE WaitInv'
  <2> DEFINE of == <<>>
  <2>1. of \in Seq({}) /\ DOMAIN of = {}
    OBVIOUS
  <2>2. waiting' = [kind |-> "none", of |-> of, values |-> <<>>]
    BY <1>3 DEF NotWaiting
  <2> HIDE DEF of
  <2>3. "none" \notin {"object", "path", "list"} /\ "none" # "object"
    OBVIOUS
  <2>4. \A i \in DOMAIN of : of[i] \in DOMAIN calls
    BY <2>1
  <2>5. QED
    BY Zenon, <1>2, <2>1, <2>2, <2>3, <2>4
<1>4. CASE compss_start \/ UNCHANGED vars
  BY <1>1, <1>4 DEF compss_start, vars
<1>5. CASE barrier \/ compss_stop
  <2>1. PICK kind \in {"barrier", "stop"} : Block(kind, <<>>)
    BY <1>5 DEF barrier, compss_stop
  <2>2. <<>> \in Seq({}) /\ DOMAIN <<>> = {}
    OBVIOUS
  <2>3. QED
    BY <1>2, <2>1, <2>2 DEF Block
<1>6. CASE wait_on
  <2>1. CASE \E n \in Futures("future_object") : Block("object", <<n>>)
    <3>1. PICK n \in DOMAIN calls : Block("object", <<n>>)
      BY <2>1 DEF Futures
    <3> DEFINE of == <<n>>
    <3>2. of \in Seq({n}) /\ Len(of) = 1 /\ \A i \in DOMAIN of : of[i] = n
      OBVIOUS
    <3>3. waiting' = [kind |-> "object", of |-> of, values |-> <<>>]
      BY <3>1 DEF Block
    <3> HIDE DEF of
    <3>4. QED
      BY <1>2, <3>1, <3>2, <3>3
  <2>2. CASE \E n \in Futures("future_object_path") : Block("path", <<n>>)
    <3>1. PICK n \in DOMAIN calls : Block("path", <<n>>)
      BY <2>2 DEF Futures
    <3> DEFINE of == <<n>>
    <3>2. of \in Seq({n}) /\ Len(of) = 1 /\ \A i \in DOMAIN of : of[i] = n
      OBVIOUS
    <3>3. waiting' = [kind |-> "path", of |-> of, values |-> <<>>]
      BY <3>1 DEF Block
    <3> HIDE DEF of
    <3>4. QED
      BY <1>2, <3>1, <3>2, <3>3
  <2>3. CASE \/ \E n, m \in Futures("future_object_path") : n # m /\ Block("path", <<n, m>>)
             \/ \E n, m \in Futures("future_object") \union Futures("future_object_path") :
                  n # m /\ Block("list", <<n, m>>)
    <3>1. PICK n \in DOMAIN calls, m \in DOMAIN calls, kind \in {"path", "list"} : Block(kind, <<n, m>>)
      BY <2>3 DEF Futures
    <3> DEFINE of == <<n, m>>
    <3>2. of \in Seq({n, m}) /\ Len(of) = 2 /\ \A i \in DOMAIN of : of[i] \in {n, m}
      OBVIOUS
    <3>3. waiting' = [kind |-> kind, of |-> of, values |-> <<>>]
      BY <3>1 DEF Block
    <3> HIDE DEF of
    <3>4. \A i \in DOMAIN of : of[i] \in DOMAIN calls
      BY <3>1, <3>2
    <3>5. Len(of) > 0 /\ kind # "object"
      BY <3>2
    <3>6. QED
      BY Zenon, <1>2, <3>2, <3>3, <3>4, <3>5
  <2>4. QED
    BY <1>6, <2>1, <2>2, <2>3 DEF wait_on
<1>7. CASE Unblock
  BY <1>3, <1>7 DEF Unblock
<1>8. CASE WaitStep
  <2> DEFINE values == Append(waiting.values, Fetched(Awaited))
  <2>1. CASE Fetched(Awaited) # Error /\ Len(values) < Len(waiting.of)
    <3>1. waiting' = [waiting EXCEPT !.values = values] /\ calls' = calls
      BY <2>1, AwaitedCall, <1>8 DEF Receive
    <3>2. PICK w : w = waiting
      OBVIOUS
    <3>3. PICK q : q = values
      OBVIOUS
    <3>4. /\ IsList(q) /\ Len(q) < Len(w.of) /\ Len(q) = Len(w.values) + 1
          /\ \A i \in DOMAIN q : i \in DOMAIN w.of /\ Delivered(w.kind, w.of[i], q[i])
      BY <1>8, <2>1, <3>2, <3>3, ReceivedSoFar
    <3>5. w = [kind |-> w.kind, of |-> w.of, values |-> w.values] /\ IsList(w.of)
          /\ (\A i \in DOMAIN w.of : w.of[i] \in DOMAIN calls) /\ (w.kind = "object" => Len(w.of) = 1)
      BY <3>2 DEF WaitInv
    <3>6. waiting' = [kind |-> w.kind, of |-> w.of, values |-> q]
      BY <3>1, <3>2, <3>3, <3>5
    <3>7. \A i \in DOMAIN q : Delivered(w.kind, w.of[i], q[i])'
      BY <3>4, <3>5, DeliveredStable
    <3> HIDE DEF values
    <3>8. QED
      BY <1>0, <3>4, <3>5, <3>6, <3>7 DEF WaitInv
  <2>2. CASE ~(Fetched(Awaited) # Error /\ Len(values) < Len(waiting.of))
    <3>1. waiting' = NotWaiting
      BY <2>2, AwaitedCall, <1>8 DEF Receive
    <3>2. QED
      BY <1>3, <3>1
  <2>3. QED
    BY <2>1, <2>2
<1>9. CASE CallSome
  BY <1>3, <1>9 DEF CallSome, Call, CallStops
<1>10. CASE \E n \in DOMAIN calls : RuntimeStep(n)
  BY <1>1, <1>10 DEF RuntimeStep, Execute, Fail, Cancel, masterVars
<1>11. QED
  BY Zenon, <1>4, <1>5, <1>6, <1>7, <1>8, <1>9, <1>10 DEF Next

\* wait_on returns the results of the tasks of its futures, each at its place.
LEMMA GotInvStep ==
  ASSUME FactsInv, WaitInv, GotInv, [Next]_vars
  PROVE  GotInv'
<1>0. \A k \in DOMAIN calls : k \in DOMAIN calls'
  BY Stable
<1>1. ASSUME got' = got PROVE GotInv'
  <2>1. PICK g : g = got
    OBVIOUS
  <2>2. CASE g.kind = "none"
    BY <1>1, <2>1, <2>2 DEF GotInv
  <2>3. CASE g.kind # "none"
    <3>1. \A i \in DOMAIN g.of : g.of[i] \in DOMAIN calls
      BY <2>1, <2>3 DEF GotInv
    <3>2. \A i \in DOMAIN g.of : Lost(g.of[i]) => Lost(g.of[i])'
      BY <3>1, LostStable
    <3>3. \A i \in DOMAIN g.of : \A kind, entry : Delivered(kind, g.of[i], entry) => Delivered(kind, g.of[i], entry)'
      BY <3>1, DeliveredStable
    <3>4. CASE g.kind \in {"object", "list"} /\ g.value = Error /\ \E i \in DOMAIN g.of : Lost(g.of[i])
      BY <1>0, <1>1, <2>1, <3>1, <3>2, <3>4 DEF GotInv, Error
    <3>5. CASE g.kind = "object" /\ 1 \in DOMAIN g.of /\ Delivered("object", g.of[1], g.value)
      BY <1>0, <1>1, <2>1, <3>1, <3>3, <3>5 DEF GotInv
    <3>6. CASE /\ g.kind \in {"list", "path"} /\ DOMAIN g.value.list = DOMAIN g.of
               /\ \A i \in DOMAIN g.of : Delivered(g.kind, g.of[i], g.value.list[i])
      BY <1>0, <1>1, <2>1, <3>1, <3>3, <3>6 DEF GotInv
    <3>7. QED
      BY <2>1, <2>3, <3>4, <3>5, <3>6 DEF GotInv
  <2>4. QED
    BY <2>2, <2>3
<1>2. CASE WaitStep
  <2> DEFINE values == Append(waiting.values, Fetched(Awaited))
  <2>1. CASE Fetched(Awaited) # Error /\ Len(values) < Len(waiting.of)
    <3>1. got' = got
      BY <2>1, AwaitedCall, <1>2 DEF Receive
    <3>2. QED
      BY <1>1, <3>1
  <2>2. CASE ~(Fetched(Awaited) # Error /\ Len(values) < Len(waiting.of))
    <3>0. PICK w : w = waiting
      OBVIOUS
    <3>1. PICK f : f = Fetched(Awaited)
      OBVIOUS
    <3>2. PICK q : q = values
      OBVIOUS
    <3>3. PICK a : a = Awaited
      OBVIOUS
    <3>4. got' = [kind |-> w.kind, of |-> w.of,
                  value |-> IF f = Error \/ w.kind = "object" THEN f ELSE [list |-> q]]
      BY <2>2, <3>0, <3>1, <3>2, AwaitedCall, <1>2 DEF Receive
    <3>5. /\ Len(w.values) \in Nat /\ Len(w.of) \in Nat /\ Len(w.values) + 1 \in DOMAIN w.of
          /\ DOMAIN w.of = 1..Len(w.of) /\ a = w.of[Len(w.values) + 1] /\ a \in DOMAIN calls
          /\ w.kind \in {"object", "path", "list"} /\ (\A i \in DOMAIN w.of : w.of[i] \in DOMAIN calls)
          /\ (w.kind = "object" => Len(w.of) = 1)
      BY <1>2, <3>0, <3>3, AwaitedCall DEF WaitInv
    <3>6. CASE f = Error
      <4>1. w.kind \in {"object", "list"} /\ Lost(a)
        BY <1>2, <3>0, <3>1, <3>3, <3>6, AwaitedCall, FetchedValue
      <4>2. Lost(a)'
        BY <4>1, <3>5, LostStable
      <4>3. got'.kind = w.kind /\ got'.of = w.of /\ got'.value = Error
        BY <3>4, <3>6
      <4>4. QED
        BY <1>0, <3>5, <4>1, <4>2, <4>3 DEF GotInv, Error
    <3>7. CASE f # Error
      <4>1. /\ Len(q) = Len(w.values) + 1 /\ DOMAIN q = 1..(Len(w.values) + 1) /\ q[Len(w.values) + 1] = f
            /\ \A i \in DOMAIN q : i \in DOMAIN w.of /\ Delivered(w.kind, w.of[i], q[i])
        BY <1>2, <3>0, <3>1, <3>2, <3>7, ReceivedSoFar
      <4>2. Len(w.of) = Len(w.values) + 1
        BY <2>2, <3>0, <3>1, <3>2, <3>5, <3>7, <4>1
      <4>3. \A i \in DOMAIN w.of : Delivered(w.kind, w.of[i], q[i])'
        BY <3>5, <4>1, <4>2, DeliveredStable
      <4>4. got'.kind = w.kind /\ got'.of = w.of
        BY <3>4
      <4>5. CASE w.kind = "object"
        <5>1. Len(w.values) + 1 = 1 /\ 1 \in DOMAIN w.of /\ q[1] = f
          BY <3>5, <4>1, <4>2, <4>5
        <5>2. got'.value = f /\ Delivered("object", w.of[1], f)'
          BY <3>4, <4>3, <4>5, <5>1
        <5>3. QED
          BY <1>0, <3>5, <4>4, <4>5, <5>1, <5>2 DEF GotInv
      <4>6. CASE w.kind # "object"
        <5>1. got'.value = [list |-> q] /\ DOMAIN q = DOMAIN w.of
          BY <3>4, <3>5, <3>7, <4>1, <4>2, <4>6
        <5>2. got'.value.list = q /\ got'.kind \in {"list", "path"}
          BY <5>1, <3>5, <4>4, <4>6
        <5>3. QED
          BY <1>0, <3>5, <4>3, <4>4, <5>1, <5>2 DEF GotInv
      <4>7. QED
        BY <4>5, <4>6
    <3>8. QED
      BY <3>6, <3>7
  <2>3. QED
    BY <2>1, <2>2
<1>3. CASE Quiet \/ CallSome \/ \E k \in DOMAIN calls : RuntimeStep(k)
  <2>1. Quiet => got' = got
    BY DEF Quiet
  <2>2. ASSUME NEW t, NEW values, Call(t, values) \/ CallStops(t, values) PROVE got' = got
    BY <2>2 DEF Call, CallStops
  <2>3. CallSome => got' = got
    BY Zenon, <2>2 DEF CallSome
  <2>4. (\E k \in DOMAIN calls : RuntimeStep(k)) => got' = got
    BY DEF RuntimeStep, Execute, Fail, Cancel, masterVars
  <2>5. QED
    BY <1>1, <1>3, <2>1, <2>3, <2>4
<1>4. QED
  BY <1>2, <1>3, StepKinds

\* Markers are set together with a registration.
LEMMA MarkerInvStep ==
  ASSUME FactsInv, MarkerInv, [Next]_vars
  PROVE  MarkerInv'
<1>1. TypeOK /\ ListInv /\ \A k \in DOMAIN calls : k \in Calls
  BY CallFacts DEF FactsInv
<1>2. ASSUME UNCHANGED <<calls, markers, registered>> PROVE MarkerInv'
  <2>1. \A k \in DOMAIN calls : tstate'[k] # "rejected" => tstate[k] # "rejected"
    BY Stable
  <2>2. \A k \in DOMAIN calls' : tstate'[k] # "rejected" => Marker(calls'[k].task) \in markers'
    BY <1>2, <2>1 DEF MarkerInv
  <2>3. \A m \in markers' : \E u \in Tasks : Marker(u) = m /\ <<u.func, u.constraint>> \in registered'
    BY <1>2 DEF MarkerInv
  <2>4. QED
    BY <2>2, <2>3 DEF MarkerInv, Marker
<1>3. CASE Quiet \/ WaitStep \/ \E n \in DOMAIN calls : RuntimeStep(n)
  <2>1. UNCHANGED <<calls, markers, registered>>
    BY <1>3 DEF Quiet, WaitStep, Receive, RuntimeStep, Execute, Fail, Cancel, masterVars
  <2>2. QED
    BY <1>2, <2>1
<1>4. CASE CallSome
  <2>1. PICK t \in Tasks, s \in Shapes : \E values \in ArgumentLists(s), e \in {"queued", "rejected"} :
               CallsTo(t, values, e)
    BY <1>1, <1>4, CallEffect
  <2>2. PICK values \in ArgumentLists(s), e \in {"queued", "rejected"} : CallsTo(t, values, e)
    BY <2>1
  <2> DEFINE n == Len(calls) + 1
  <2>3. \/ e = "rejected" /\ UNCHANGED <<markers, registered>>
        \/ Register(t)
    BY <2>2 DEF CallsTo
  <2>4. /\ DOMAIN calls' = DOMAIN calls \union {n} /\ calls'[n] = [task |-> t, values |-> values]
        /\ tstate'[n] = e
    BY <1>1, <2>2, NewCall
  <2>5. calls'[n].task = t
    BY <2>4
  <2> HIDE DEF n
  <2>6. \A m \in markers' : \E u \in Tasks : Marker(u) = m /\ <<u.func, u.constraint>> \in registered'
    BY <2>3 DEF Register, MarkerInv
  <2>7. \A k \in DOMAIN calls' : tstate'[k] # "rejected" => Marker(calls'[k].task) \in markers'
    <3> SUFFICES ASSUME NEW k \in DOMAIN calls', tstate'[k] # "rejected"
                 PROVE  Marker(calls'[k].task) \in markers'
      OBVIOUS
    <3>1. CASE k \in DOMAIN calls
      <4>1. calls'[k] = calls[k] /\ tstate[k] # "rejected"
        BY <3>1, Stable
      <4>2. Marker(calls[k].task) \in markers /\ markers \subseteq markers'
        BY <4>1, <3>1, <2>3 DEF MarkerInv, Register
      <4>3. QED
        BY <4>1, <4>2
    <3>2. CASE k = n
      BY <3>2, <2>3, <2>4, <2>5 DEF Register
    <3>3. QED
      BY <3>1, <3>2, <2>4
  <2>8. QED
    BY <2>6, <2>7 DEF MarkerInv, Marker
<1>5. QED
  BY <1>3, <1>4, StepKinds

\* The tasks whose files a task reads are known once it has been submitted.
LEMMA ProducersStable ==
  ASSUME FactsInv, [Next]_vars, NEW n \in DOMAIN calls
  PROVE  Producers(n) \subseteq DOMAIN calls /\ Producers(n)' = Producers(n)
<1>1. \A k \in 1..(n - 1) : k \in DOMAIN calls
  BY CallFacts DEF FactsInv
<1>2. Inputs(n)' = Inputs(n)
  <2>1. params'[n] = params[n]
    BY Stable
  <2>2. QED
    BY <2>1 DEF Inputs
<1>3. \A k \in 1..(n - 1) : Outputs(k)' = Outputs(k) /\ (tstate'[k] = "rejected" <=> tstate[k] = "rejected")
  <2> TAKE k \in 1..(n - 1)
  <2>1. params'[k] = params[k] /\ (tstate'[k] = "rejected" <=> tstate[k] = "rejected")
    BY <1>1, Stable
  <2>2. QED
    BY <2>1 DEF Outputs
<1>4. QED
  BY <1>1, <1>2, <1>3 DEF Producers

\* A task runs after the tasks whose files it reads.
LEMMA ProducersStep ==
  ASSUME FactsInv, ProducersFirst, [Next]_vars
  PROVE  ProducersFirst'
<1> SUFFICES ASSUME NEW n \in DOMAIN calls', tstate'[n] = "done", NEW k \in Producers(n)'
             PROVE  tstate'[k] = "done"
  BY DEF ProducersFirst
<1>1. n \in DOMAIN calls
  BY NewState
<1>2. k \in Producers(n) /\ k \in DOMAIN calls
  BY <1>1, ProducersStable
<1>3. tstate[k] = "done"
  <2>1. CASE tstate[n] = "done"
    BY <2>1, <1>1, <1>2 DEF ProducersFirst
  <2>2. CASE tstate[n] # "done"
    <3>1. Execute(n)
      BY <2>2, <1>1, Stable
    <3>2. QED
      BY <3>1, <1>2 DEF Execute, ReadyToRun
  <2>3. QED
    BY <2>1, <2>2
<1>4. QED
  BY <1>2, <1>3, Stable

\* A complete call runs with its own matched arguments.
LEMMA RunInvStep ==
  ASSUME FactsInv, RunInv, [Next]_vars
  PROVE  RunInv'
<1> SUFFICES ASSUME NEW n \in DOMAIN calls', tstate'[n] = "done", Complete(calls[n])'
             PROVE  FuturesDone(n)' /\ RanAsMatched(n)'
  BY DEF RunInv
<1>1. n \in DOMAIN calls
  BY NewState
<1>2. calls'[n] = calls[n]
  BY <1>1, Stable
<1>3. Complete(calls[n])
  BY <1>2 DEF Complete
<1>4. FuturesDone(n) /\ ran'[n] = RBinding(calls[n].task, MatchedArgs(calls[n]))
  <2>1. CASE tstate[n] = "done"
    BY <2>1, <1>1, <1>3, Stable DEF RunInv, RanAsMatched
  <2>2. CASE tstate[n] # "done"
    <3>1. Execute(n)
      BY <2>2, <1>1, Stable
    <3>2. tstate[n] = "queued" /\ \A p \in Inputs(n) : Readable(p)
      BY <3>1 DEF Execute, ReadyToRun
    <3>3. n \in Calls
      BY <1>1, CallFacts DEF FactsInv
    <3>4. ran'[n] = RBinding(calls[n].task, FunctionArgs(n))
      BY <3>1, <3>3 DEF Execute, FactsInv, StateInv
    <3>5. FunctionArgs(n) = MatchedArgs(calls[n]) /\ FuturesDone(n)
      BY <3>2, <1>1, <1>3, ReadsOwnArguments DEF FuturesDone
    <3>6. QED
      BY <3>4, <3>5
  <2>3. QED
    BY <2>1, <2>2
<1> DEFINE args == Matched(calls[n])
<1>5. args' = args
  BY <1>2
<1>6. FuturesDone(n)'
  BY <1>4, <1>5, Stable DEF FuturesDone
<1>7. \A i \in DOMAIN args : (Current(args[i].value))' = Current(args[i].value)
  <2> TAKE i \in DOMAIN args
  <2>1. CASE args[i].value.class = "future_object"
    <3>1. ResultOf(args[i].value.of)' = ResultOf(args[i].value.of)
      <4> DEFINE k == args[i].value.of
      <4>1. k \in DOMAIN calls /\ tstate[k] = "done" /\ k' = k
        BY <2>1, <1>4, <1>5 DEF FuturesDone
      <4>2. QED
        BY <4>1, Stable DEF ResultOf
    <3>2. QED
      BY <2>1, <3>1, <1>5 DEF Current
  <2>2. CASE args[i].value.class # "future_object"
    BY <2>2, <1>5 DEF Current, Term, RetPath
  <2>3. QED
    BY <2>1, <2>2
<1>8. MatchedArgs(calls[n])' = MatchedArgs(calls[n])
  BY <1>5, <1>7 DEF MatchedArgs
<1>9. RanAsMatched(n)'
  BY <1>2, <1>4, <1>8 DEF RanAsMatched
<1>10. QED
  BY <1>6, <1>9

\* Initially there are no calls.
LEMMA InvInit == Init => SubmissionInv
<1> SUFFICES ASSUME Init PROVE SubmissionInv
  OBVIOUS
<1>1. /\ DOMAIN calls = {} /\ IsList(calls) /\ IsList(params) /\ Len(calls) = 0 /\ Len(params) = 0
  <2>1. calls = <<>> /\ params = <<>>
    BY DEF Init
  <2>2. <<>> \in Seq({}) /\ DOMAIN <<>> = {} /\ Len(<<>>) = 0
    OBVIOUS
  <2>3. QED
    BY <2>1, <2>2 DEF IsList
<1>2. TaskTypes
  BY <1>1, SubmissionAssumption DEF Init, TaskTypes
<1>3. StateInv
  BY <1>1, SubmissionAssumption DEF Init, StateInv
<1>4. SessionTypes /\ WaitInv
  <2>1. waiting = [kind |-> "none", of |-> <<>>, values |-> <<>>] /\ session = "fresh"
    BY DEF Init, NotWaiting
  <2>2. <<>> \in Seq({}) /\ DOMAIN <<>> = {}
    OBVIOUS
  <2>3. IsList(waiting.of) /\ DOMAIN waiting.of = {} /\ IsList(waiting.values) /\ DOMAIN waiting.values = {}
    BY <2>1, <2>2 DEF IsList
  <2>4. QED
    BY <2>1, <2>3 DEF SessionTypes, WaitInv
<1>5. TypeOK
  BY <1>2, <1>3, <1>4, TypeParts
<1>6. ListInv /\ ParamInv /\ ArgInv /\ ProducersFirst /\ RunInv
  BY <1>1 DEF ListInv, ParamInv, ArgInv, ProducersFirst, RunInv
<1>7. FileInv
  BY PathFacts DEF Init, FileInv
<1>8. MarkerInv
  BY <1>1 DEF Init, MarkerInv
<1>9. GotInv
  BY DEF Init, NothingGot, GotInv
<1>10. QED
  BY <1>3, <1>4, <1>5, <1>6, <1>7, <1>8, <1>9 DEF SubmissionInv, FactsInv

\* Every step keeps the facts about calls, parameters, tasks and files.
LEMMA FactsStep ==
  ASSUME FactsInv, WaitInv, [Next]_vars
  PROVE  FactsInv'
<1>1. SessionTypes'
  BY SessionStep DEF FactsInv
<1>2. ASSUME UNCHANGED <<calls, params, file, registered, tstate, attempts, ran>>, StateInv'
      PROVE  (TaskTypes /\ ListInv /\ StateInv /\ ParamInv /\ FileInv /\ ArgInv)'
  <2>1. TaskTypes'
    BY <1>2 DEF FactsInv, TypeOK, TaskTypes
  <2>2. ListInv' /\ ParamInv'
    BY <1>2 DEF FactsInv, ListInv, ParamInv, Matched, Returns
  <2>3. ArgInv'
    BY <1>2 DEF FactsInv, ArgInv
  <2>4. FileInv'
    BY <1>2 DEF FactsInv, FileInv, ResultOf
  <2>5. QED
    BY <1>2, <2>1, <2>2, <2>3, <2>4
<1>3. CASE Quiet
  <2>1. StateInv'
    BY <1>3 DEF Quiet, FactsInv, StateInv
  <2>2. QED
    BY <1>1, <1>2, <1>3, <2>1, TypePartsNext DEF Quiet, FactsInv
<1>4. CASE WaitStep
  <2>1. UNCHANGED <<calls, params, file, registered, tstate, attempts, ran>>
    BY <1>4 DEF WaitStep, Receive
  <2>2. StateInv'
    BY <2>1 DEF FactsInv, StateInv
  <2>3. QED
    BY <1>1, <1>2, <2>1, <2>2, TypePartsNext DEF FactsInv
<1>5. CASE CallSome
  BY <1>1, <1>5, FactsCall, TypePartsNext DEF FactsInv
<1>6. CASE \E n \in DOMAIN calls : RuntimeStep(n)
  BY <1>1, <1>6, FactsRun, TypePartsNext DEF FactsInv
<1>7. QED
  BY <1>3, <1>4, <1>5, <1>6, StepKinds

\* The invariant of the master, the files and the runtime: rcompss_execute_decorated_task,
\* process_task, compss_wait_on and the runtime's retries keep it, for any number of
\* calls, tasks, formals and attempts.
THEOREM SubmissionInvariance == Spec => []SubmissionInv
<1>1. SubmissionInv /\ [Next]_vars => SubmissionInv'
  BY FactsStep, WaitInvStep, GotInvStep, MarkerInvStep, ProducersStep, RunInvStep DEF SubmissionInv
<1>2. QED
  BY InvInit, <1>1, PTL DEF Spec

\* Type correctness of the master: among others, a task that has failed for good has not
\* run, and a task is never tried more often than the runtime allows.
THEOREM SubmissionTypeCorrect == Spec => []TypeOK
  BY SubmissionInvariance, PTL DEF SubmissionInv, FactsInv

\* What a reader may have been given is never written again: an argument file once its
\* call is submitted, the return file once its task is done; a retry writes only the
\* return file of the task it retries.
THEOREM FilesStayFinal == Spec => FilesAreFinal
<1> DEFINE Final(p) ==
             \/ p.kind = "arg" /\ p.call \in DOMAIN calls
             \/ p.kind = "ret" /\ tstate[p.call] = "done"
<1>1. ASSUME FactsInv, [Next]_vars, NEW p \in Paths, Final(p)
      PROVE  file'[p] = file[p]
  <2>1. CASE Quiet \/ WaitStep
    BY <2>1 DEF Quiet, WaitStep, Receive
  <2>2. CASE CallSome
    <3>1. TypeOK /\ ListInv
      BY <1>1 DEF FactsInv
    <3>2. PICK t \in Tasks, s \in Shapes : \E values \in ArgumentLists(s), e \in {"queued", "rejected"} :
                 CallsTo(t, values, e)
      BY <2>2, <3>1, CallEffect
    <3>3. PICK values \in ArgumentLists(s), e \in {"queued", "rejected"} : CallsTo(t, values, e)
      BY <3>2
    <3> DEFINE n == Len(calls) + 1
               args == Matched([task |-> t, values |-> values])
    <3>4. \A q \in Paths : ~(\E i \in SerializedArguments(n, args) : q = ArgPath(n, i)) => file'[q] = file[q]
      BY <3>3 DEF CallsTo
    <3>5. n \notin DOMAIN calls
      BY <3>1, CallFacts
    <3> HIDE DEF n, args
    <3>6. \A i : p # ArgPath(n, i)
      BY <1>1, <3>5, PathFacts
    <3>7. QED
      BY <3>4, <3>6
  <2>3. CASE \E n \in DOMAIN calls : RuntimeStep(n)
    <3>1. PICK n \in DOMAIN calls : RuntimeStep(n)
      BY <2>3
    <3>2. tstate[n] = "queued" /\ (p # RetPath(n) => file'[p] = file[p])
      BY <1>1, <3>1, RunEffect
    <3>3. p # RetPath(n)
      BY <1>1, <3>2 DEF RetPath
    <3>4. QED
      BY <3>2, <3>3
  <2>4. QED
    BY <1>1, <2>1, <2>2, <2>3, StepKinds
<1>2. SubmissionInv /\ [Next]_vars => [\A p \in Paths : Final(p) => file'[p] = file[p]]_vars
  BY <1>1 DEF SubmissionInv
<1>3. QED
  BY SubmissionInvariance, <1>2, PTL DEF Spec, FilesAreFinal

\* compss_wait_on returns the result that the task of its future computed; for a list or a
\* vector of element futures it returns a list with one entry for each future, at its
\* place; it fails, or puts a path into that list, only when the result is lost, whatever
\* failed and was retried before.
THEOREM WaitOnDelivers == Spec => []GotInv
  BY SubmissionInvariance, PTL DEF SubmissionInv

\* Tasks, files, retries and wait_on add nothing to the difference between the program
\* and its sequential run but the list around the values: where every task runs with the
\* arguments of its call, every value that wait_on returns, or puts into the list that it
\* returns, is the sequential one.
THEOREM WaitOnFollowsBinding == Spec => [](BindingPreserved => WaitOnIsSequential)
<1>1. ASSUME SubmissionInv, BindingPreserved PROVE WaitOnIsSequential
  <2>1. GotInv /\ \A n \in DOMAIN calls : tstate[n] = "done" => ran[n] = Sequential[n]
    BY <1>1 DEF SubmissionInv, BindingPreserved
  <2>2. ASSUME NEW n \in DOMAIN calls, tstate[n] = "done" PROVE ResultOf(n) = SequentialValue(n)
    BY <2>1, <2>2 DEF ResultOf, SequentialValue
  <2>3. ASSUME NEW kind, NEW n \in DOMAIN calls, NEW entry, Delivered(kind, n, entry)
        PROVE  EntryIsSequential(kind, n, entry)
    BY <2>2, <2>3 DEF Delivered, EntryIsSequential
  <2>4. CASE got.kind = "none"
    BY <2>4 DEF WaitOnIsSequential
  <2>5. CASE got.kind \in {"object", "list"} /\ got.value = Error /\ \E i \in DOMAIN got.of : Lost(got.of[i])
    BY <2>5 DEF WaitOnIsSequential
  <2>6. CASE got.kind = "object" /\ got.of[1] \in DOMAIN calls /\ Delivered("object", got.of[1], got.value)
    <3>1. got.value = SequentialValue(got.of[1])
      BY <2>2, <2>6 DEF Delivered
    <3>2. QED
      BY <2>6, <3>1 DEF WaitOnIsSequential
  <2>7. CASE /\ got.kind \in {"list", "path"} /\ DOMAIN got.value.list = DOMAIN got.of
             /\ \A i \in DOMAIN got.of : got.of[i] \in DOMAIN calls /\ Delivered(got.kind, got.of[i], got.value.list[i])
    <3>1. \A i \in DOMAIN got.of : EntryIsSequential(got.kind, got.of[i], got.value.list[i])
      BY <2>3, <2>7
    <3>2. QED
      BY <2>7, <3>1 DEF WaitOnIsSequential
  <2>8. QED
    BY <2>1, <2>4, <2>5, <2>6, <2>7 DEF GotInv
<1>2. QED
  BY SubmissionInvariance, <1>1, PTL

\* A task whose call leaves no formal without argument runs with the matched arguments of
\* its own call: classification, serialization, the parameter vectors, the files and
\* buildFunctionArgs lose or exchange none, and every future stands for the result of its
\* task, which has ended before.
THEOREM RunsWithOwnArguments == Spec => []RunInv
  BY SubmissionInvariance, PTL DEF SubmissionInv

\* A task runs only after every task that writes one of its input files is done, whatever
\* fails and is retried in between.
THEOREM ReadersAfterWriters == Spec => []ProducersFirst
  BY SubmissionInvariance, PTL DEF SubmissionInv

\* Equal markers mean the same function and the same constraints. (The marker's cut and
\* its gsub() do not guarantee it: see the run MCTaskSubmissionMarker.)
MarkersTellApart ==
  \A t, u \in Tasks : Marker(t) = Marker(u) => t.func = u.func /\ t.constraint = u.constraint

\* Where markers tell decorators apart, every task handed to the runtime has been
\* registered with the constraints of its own decorator.
THEOREM OwnConstraintsRegistered ==
  ASSUME MarkersTellApart
  PROVE  Spec => []RegisteredWithConstraints
<1>1. SubmissionInv => RegisteredWithConstraints
  <2> SUFFICES ASSUME SubmissionInv, NEW n \in DOMAIN calls, tstate[n] # "rejected"
               PROVE  <<calls[n].task.func, calls[n].task.constraint>> \in registered
    BY DEF RegisteredWithConstraints
  <2>1. calls[n].task \in Tasks
    BY DEF SubmissionInv, FactsInv, TypeOK
  <2>2. PICK u \in Tasks : Marker(u) = Marker(calls[n].task) /\ <<u.func, u.constraint>> \in registered
    BY DEF SubmissionInv, MarkerInv
  <2>3. u.func = calls[n].task.func /\ u.constraint = calls[n].task.constraint
    BY <2>1, <2>2, MarkersTellApart DEF MarkersTellApart
  <2>4. QED
    BY <2>2, <2>3
<1>2. QED
  BY SubmissionInvariance, <1>1, PTL

-----------------------------------------------------------------------------
(***************************************************************************)
(* The sequential program.                                                 *)
(***************************************************************************)
IsFuture(v) == v.class \in {"future_object", "future_object_path"}

\* A future passed to a call is the future of an earlier call that was accepted.
FutureInv ==
  \A n \in DOMAIN calls : \A j \in DOMAIN calls[n].values :
    LET v == calls[n].values[j].value
    IN IsFuture(v) => v.of \in 1..(n - 1) /\ tstate[v.of] # "rejected" /\ calls[v.of].task.return_value

\* The futures in a new call are futures of the calls made so far.
LEMMA NewFutures ==
  ASSUME TypeOK, ListInv, CallSome
  PROVE  \E c : /\ calls' = Append(calls, c)
                /\ \A j \in DOMAIN c.values :
                     IsFuture(c.values[j].value) =>
                       /\ c.values[j].value.of \in DOMAIN calls
                       /\ tstate[c.values[j].value.of] # "rejected"
                       /\ calls[c.values[j].value.of].task.return_value
<1>1. PICK t \in Tasks, s \in Shapes :
        \E v \in [DOMAIN s -> UNION {ValuesOf(s[i].class) : i \in DOMAIN s}] :
          /\ \A i \in DOMAIN s : v[i] \in ValuesOf(s[i].class)
          /\ LET values == [i \in DOMAIN s |-> [name |-> s[i].name, value |-> v[i]]]
             IN Call(t, values) \/ CallStops(t, values)
  BY DEF CallSome
<1>2. PICK v \in [DOMAIN s -> UNION {ValuesOf(s[i].class) : i \in DOMAIN s}] :
        /\ \A i \in DOMAIN s : v[i] \in ValuesOf(s[i].class)
        /\ LET values == [i \in DOMAIN s |-> [name |-> s[i].name, value |-> v[i]]]
           IN Call(t, values) \/ CallStops(t, values)
  BY <1>1
<1> DEFINE values == [i \in DOMAIN s |-> [name |-> s[i].name, value |-> v[i]]]
           c == [task |-> t, values |-> values]
<1>3. DOMAIN values = DOMAIN s /\ \A i \in DOMAIN s : values[i].value = v[i]
  OBVIOUS
<1> HIDE DEF values
<1>4. calls' = Append(calls, c)
  BY <1>2 DEF Call, CallStops, values
<1>5. ASSUME NEW class, NEW x \in ValuesOf(class), IsFuture(x)
      PROVE  x.of \in DOMAIN calls /\ tstate[x.of] # "rejected" /\ calls[x.of].task.return_value
  <2>1. CASE class \in {"future_object", "future_object_path"}
    <3>1. PICK k \in Futures(class) : x = [class |-> class, of |-> k]
      BY <2>1, <1>5 DEF ValuesOf
    <3>2. x.of = k
      BY <3>1
    <3>3. QED
      BY <3>2 DEF Futures
  <2>2. CASE class \notin {"future_object", "future_object_path"}
    <3>1. x = [class |-> class, of |-> class]
      BY <2>2, <1>5 DEF ValuesOf
    <3>2. x.class = class
      BY <3>1
    <3>3. QED
      BY <3>2, <2>2, <1>5 DEF IsFuture
  <2>3. QED
    BY <2>1, <2>2
<1>6. c.values = values
  OBVIOUS
<1>7. \A j \in DOMAIN values : values[j].value \in ValuesOf(s[j].class)
  BY <1>2, <1>3
<1> HIDE DEF c
<1>8. \A j \in DOMAIN values :
        IsFuture(values[j].value) =>
          /\ values[j].value.of \in DOMAIN calls
          /\ tstate[values[j].value.of] # "rejected"
          /\ calls[values[j].value.of].task.return_value
  BY <1>5, <1>7
<1>9. QED
  BY Zenon, <1>4, <1>6, <1>8

\* Every step keeps it that futures come from earlier calls.
LEMMA FutureStep ==
  ASSUME FactsInv, FutureInv, [Next]_vars
  PROVE  FutureInv'
<1>0. TypeOK /\ ListInv /\ Len(calls) \in Nat /\ DOMAIN calls = 1..Len(calls)
  BY CallFacts DEF FactsInv
<1> SUFFICES ASSUME NEW n \in DOMAIN calls', NEW j \in DOMAIN calls'[n].values, IsFuture(calls'[n].values[j].value)
             PROVE  LET k == calls'[n].values[j].value.of
                    IN k \in 1..(n - 1) /\ tstate'[k] # "rejected" /\ calls'[k].task.return_value
  BY DEF FutureInv, IsFuture
<1>1. PICK k : k = calls'[n].values[j].value.of
  OBVIOUS
<1>2. k \in 1..(n - 1) /\ k \in DOMAIN calls /\ tstate[k] # "rejected" /\ calls[k].task.return_value
  <2>1. CASE n \in DOMAIN calls
    <3>1. calls'[n] = calls[n]
      BY <2>1, Stable
    <3>2. k \in 1..(n - 1) /\ tstate[k] # "rejected" /\ calls[k].task.return_value
      BY <1>1, <2>1, <3>1 DEF FutureInv
    <3>3. QED
      BY <1>0, <2>1, <3>2
  <2>2. CASE n \notin DOMAIN calls
    <3>1. CallSome
      BY <2>2, NewState
    <3>2. PICK c : /\ calls' = Append(calls, c)
                   /\ \A i \in DOMAIN c.values :
                        IsFuture(c.values[i].value) =>
                          /\ c.values[i].value.of \in DOMAIN calls
                          /\ tstate[c.values[i].value.of] # "rejected"
                          /\ calls[c.values[i].value.of].task.return_value
      BY <1>0, <3>1, NewFutures
    <3>3. /\ DOMAIN Append(calls, c) = 1..(Len(calls) + 1) /\ Append(calls, c)[Len(calls) + 1] = c
      BY <1>0, Appended DEF ListInv
    <3>4. n = Len(calls) + 1
      <4>1. n \in 1..(Len(calls) + 1)
        BY Zenon, <3>2, <3>3
      <4>2. QED
        BY <1>0, <2>2, <4>1
    <3>5. calls'[n] = c
      BY Zenon, <3>2, <3>3, <3>4
    <3>6. k \in DOMAIN calls /\ tstate[k] # "rejected" /\ calls[k].task.return_value
      BY Zenon, <1>1, <3>2, <3>5
    <3>7. QED
      BY <1>0, <3>4, <3>6
  <2>3. QED
    BY <2>1, <2>2
<1>3. tstate'[k] # "rejected" /\ calls'[k] = calls[k]
  BY <1>2, Stable
<1>4. QED
  BY <1>1, <1>2, <1>3

\* The program passes on only futures of earlier calls that were accepted and return a
\* value: compss_wait_on and process_task never meet a future without a task.
THEOREM FuturesAreEarlier == Spec => []FutureInv
<1>1. Init => FutureInv
  BY DEF Init, FutureInv
<1>2. SubmissionInv /\ FutureInv /\ [Next]_vars => FutureInv'
  BY FutureStep DEF SubmissionInv
<1>3. QED
  BY SubmissionInvariance, <1>1, <1>2, PTL DEF Spec

\* What a value of a call stands for when the arguments of call k are g[k].
SeqTerm(v, g) ==
  IF IsFuture(v) THEN [func |-> calls[v.of].task.func, args |-> g[v.of]] ELSE [data |-> v.of]
SeqTerms(n, g) == [j \in DOMAIN calls[n].values |-> SeqTerm(calls[n].values[j].value, g)]

\* The arguments of a call in the sequential program, by R's rule.
LEMMA SequentialRule ==
  ASSUME NEW n, NEW g
  PROVE  SequentialArgs(n, g) = RBinding(calls[n].task, TermsOf(calls[n].values, SeqTerms(n, g)))
<1> DEFINE values == calls[n].values
           args == [i \in DOMAIN values |-> [name |-> values[i].name, term |-> SeqTerm(values[i].value, g)]]
<1>1. SequentialArgs(n, g) = RBinding(calls[n].task, args)
  BY Zenon DEF SequentialArgs, SeqTerm, IsFuture
<1> HIDE DEF values
<1>2. args = TermsOf(values, SeqTerms(n, g))
  BY Zenon DEF TermsOf, SeqTerms, values
<1>3. QED
  BY Zenon, <1>1, <1>2 DEF values

\* They depend on the arguments of earlier calls only.
LEMMA SequentialEarlier ==
  ASSUME FutureInv, NEW n \in DOMAIN calls, NEW g, NEW h, \A k \in 1..(n - 1) : g[k] = h[k]
  PROVE  SequentialArgs(n, g) = SequentialArgs(n, h)
<1> DEFINE values == calls[n].values
<1>1. ASSUME NEW j \in DOMAIN values
      PROVE  SeqTerm(values[j].value, g) = SeqTerm(values[j].value, h)
  <2>1. PICK v : v = values[j].value
    OBVIOUS
  <2>2. IsFuture(v) => g[v.of] = h[v.of]
    BY Zenon, <2>1 DEF FutureInv
  <2>3. SeqTerm(v, g) = SeqTerm(v, h)
    BY Zenon, <2>2 DEF SeqTerm
  <2>4. QED
    BY <2>1, <2>3
<1>2. SeqTerms(n, g) = SeqTerms(n, h)
  BY Zenon, <1>1 DEF SeqTerms
<1>3. QED
  BY <1>2, SequentialRule

\* The sequential program is well defined: every call has its arguments.
LEMMA SequentialDefined ==
  ASSUME FactsInv, FutureInv, NEW n \in DOMAIN calls
  PROVE  Sequential[n] = SequentialArgs(n, Sequential)
<1> DEFINE L == Len(calls)
           computes(g, m) == \A k \in 1..m : g[k] = SequentialArgs(k, g)
           S == {m \in Nat : m <= L => \E g : computes(g, m)}
<1>1. L \in Nat /\ DOMAIN calls = 1..L
  BY CallFacts DEF FactsInv
<1> HIDE DEF L
<1>2. 0 \in S
  <2>1. \A g : computes(g, 0)
    OBVIOUS
  <2> HIDE DEF computes
  <2>2. QED
    BY <2>1
<1>3. ASSUME NEW m \in Nat, m \in S
      PROVE  m + 1 \in S
  <2> SUFFICES ASSUME m + 1 <= L
               PROVE  \E h : computes(h, m + 1)
    <3> HIDE DEF computes
    <3> QED OBVIOUS
  <2>1. PICK g : computes(g, m)
    <3> HIDE DEF computes
    <3> QED BY <1>1, <1>3
  <2> DEFINE h == [k \in 1..(m + 1) |-> IF k = m + 1 THEN SequentialArgs(m + 1, g) ELSE g[k]]
  <2>2. \A k \in 1..m : h[k] = g[k]
    <3>1. \A k \in 1..m : k \in 1..(m + 1) /\ k # m + 1
      OBVIOUS
    <3>2. QED
      BY Zenon, <3>1
  <2>3. h[m + 1] = SequentialArgs(m + 1, g)
    <3>1. m + 1 \in 1..(m + 1)
      OBVIOUS
    <3>2. QED
      BY Zenon, <3>1
  <2> HIDE DEF h
  <2>4. ASSUME NEW k \in 1..(m + 1)
        PROVE  SequentialArgs(k, g) = SequentialArgs(k, h)
    <3>1. k \in DOMAIN calls /\ \A l \in 1..(k - 1) : l \in 1..m
      BY <1>1
    <3>2. \A l \in 1..(k - 1) : g[l] = h[l]
      BY Zenon, <2>2, <3>1
    <3>3. QED
      BY <3>1, <3>2, SequentialEarlier
  <2>5. \A k \in 1..(m + 1) : k \in 1..m \/ k = m + 1
    OBVIOUS
  <2>6. computes(h, m + 1)
    BY Zenon, <2>1, <2>2, <2>3, <2>4, <2>5
  <2>7. QED
    BY Zenon, <2>6
<1>4. L \in S
  <2> HIDE DEF S
  <2> QED BY <1>1, <1>2, <1>3, SetInduction
<1>5. PICK g : computes(g, L)
  <2> HIDE DEF computes
  <2> QED BY <1>1, <1>4
<1> DEFINE f == [k \in 1..L |-> g[k]]
<1>6. \A k \in 1..L : f[k] = g[k]
  OBVIOUS
<1>7. \A k \in 1..L : SequentialArgs(k, g) = SequentialArgs(k, f)
  <2> HIDE DEF f
  <2> SUFFICES ASSUME NEW k \in 1..L
               PROVE  SequentialArgs(k, g) = SequentialArgs(k, f)
    OBVIOUS
  <2>1. k \in DOMAIN calls /\ \A l \in 1..(k - 1) : l \in 1..L
    BY <1>1
  <2>2. \A l \in 1..(k - 1) : g[l] = f[l]
    BY Zenon, <1>6, <2>1
  <2>3. QED
    BY <2>1, <2>2, SequentialEarlier
<1>8. f = [k \in 1..L |-> SequentialArgs(k, f)]
  <2>1. \A k \in 1..L : g[k] = SequentialArgs(k, f)
    <3> HIDE DEF f
    <3> QED BY Zenon, <1>5, <1>7
  <2>2. QED
    BY Zenon, <2>1
<1>9. Sequential = CHOOSE value : value = [k \in 1..L |-> SequentialArgs(k, value)]
  BY Zenon DEF Sequential, L
<1> HIDE DEF f
<1>10. Sequential = [k \in 1..L |-> SequentialArgs(k, Sequential)]
  BY Zenon, <1>8, <1>9
<1>11. QED
  BY Zenon, <1>1, <1>10

\* A call the code hands on as it was written: every formal has an argument or a default,
\* none of a function with formals of its own is NULL (which would delete a formal), and
\* no future is passed as the path of an element.
WellWritten(c) ==
  /\ \A j \in DOMAIN c.values : c.values[j].value.class # "future_object_path"
  /\ ~c.task.dots => NoNull(c.values) /\ \A i \in Positions : BoundValue(c.values, i).class # "symbol"

CompleteProgram == \A n \in DOMAIN calls : WellWritten(calls[n])

\* The values of a call have the classes that its shape names.
LEMMA NoSymbols ==
  ASSUME NEW s \in Shapes, NEW values \in ArgumentLists(s), NEW j \in DOMAIN values
  PROVE  values[j].value.class # "symbol"
<1>1. j \in DOMAIN s /\ values[j].value \in Argument(s[j].class)
  BY Zenon, WrittenList
<1>2. s[j].class # "symbol"
  <2>1. s \in Shape
    BY SubmissionAssumption
  <2> DEFINE E == [name : Range(Formals) \union {""},
                   class : {"integer", "character", "object", "NULL", "future_object", "future_object_path"}]
  <2>2. s \in Seq(E)
    BY Zenon, <2>1 DEF Shape
  <2>3. \A e \in E : e.class \in {"integer", "character", "object", "NULL", "future_object", "future_object_path"}
    BY Zenon
  <2> HIDE DEF E
  <2>4. j \in 1..Len(s)
    BY <1>1, <2>2
  <2>5. s[j] \in E
    BY <2>2, <2>4, ElementOfSeq
  <2>6. s[j].class \in {"integer", "character", "object", "NULL", "future_object", "future_object_path"}
    BY Zenon, <2>3, <2>5
  <2>7. QED
    BY <2>6
<1>3. ASSUME NEW class, NEW x \in Argument(class)
      PROVE  x.class = class
  <2>1. CASE class \in {"future_object", "future_object_path"}
    BY <2>1, <1>3 DEF Argument
  <2>2. CASE class \notin {"future_object", "future_object_path"}
    BY <2>2, <1>3 DEF Argument
  <2>3. QED
    BY <2>1, <2>2
<1>4. QED
  BY <1>1, <1>2, <1>3

\* The matched arguments of a well-written call of a function with formals of its own.
LEMMA WellMatched ==
  ASSUME NEW c, WellWritten(c), ~c.task.dots, IsList(c.values)
  PROVE  /\ DOMAIN Matched(c) = Positions
         /\ \A i \in Positions : Matched(c)[i].name = Formals[i] /\ Matched(c)[i].value = BoundValue(c.values, i)
<1> DEFINE values == c.values
<1>1. Matched(c) = After(values, Len(Formals))
  <2>1. Matched(c) = MatchLoop(values)[Len(Formals)].args
    BY Zenon DEF Matched, MatchArguments
  <2>2. NoNull(values)
    BY Zenon DEF WellWritten
  <2> HIDE DEF values
  <2>3. IsList(values)
    BY DEF values
  <2>4. QED
    BY <2>1, <2>2, <2>3, MatchedExactly
<1> HIDE DEF values
<1>2. \A i \in Positions : i <= Len(Formals)
  BY SubmissionAssumption DEF Positions
<1>3. After(values, Len(Formals)) = [i \in Positions |-> [name |-> Formals[i], value |-> BoundValue(values, i)]]
  BY Zenon, <1>2 DEF After
<1>4. QED
  BY <1>1, <1>3 DEF values

\* A well-written call leaves no formal unbound.
LEMMA WellWrittenComplete ==
  ASSUME NEW c, WellWritten(c), NEW s \in Shapes, c.values \in ArgumentLists(s)
  PROVE  Complete(c)
<1>1. IsList(c.values)
  BY Zenon, WrittenList
<1>2. CASE c.task.dots
  <2>1. Matched(c) = VariableArguments(c.task, c.values)
    BY Zenon, <1>2 DEF Matched, MatchArguments
  <2>2. DOMAIN Matched(c) = DOMAIN c.values /\ \A i \in DOMAIN c.values : Matched(c)[i].value = c.values[i].value
    BY <2>1 DEF VariableArguments
  <2>3. QED
    BY Zenon, <2>2, NoSymbols DEF Complete
<1>3. CASE ~c.task.dots
  <2>1. /\ DOMAIN Matched(c) = Positions
        /\ \A i \in Positions : Matched(c)[i].value = BoundValue(c.values, i)
    BY Zenon, <1>1, <1>3, WellMatched
  <2>2. \A i \in Positions : BoundValue(c.values, i).class # "symbol"
    BY Zenon, <1>3 DEF WellWritten
  <2>3. QED
    BY Zenon, <2>1, <2>2 DEF Complete
<1>4. QED
  BY <1>2, <1>3

\* A well-written call is bound on the worker as in the sequential program, when its
\* futures stand for what the sequential program computes.
LEMMA SameBinding ==
  ASSUME NEW n, WellWritten(calls[n]), IsList(calls[n].values), NEW g,
         \A i \in DOMAIN Matched(calls[n]) :
           LET v == Matched(calls[n])[i].value IN v.class = "future_object" => ResultOf(v.of) = SeqTerm(v, g)
  PROVE  RBinding(calls[n].task, MatchedArgs(calls[n])) = SequentialArgs(n, g)
<1> DEFINE c == calls[n]
           t == c.task
           values == c.values
           T == SeqTerms(n, g)
<1>1. SequentialArgs(n, g) = RBinding(t, TermsOf(values, T))
  BY SequentialRule
<1>2. DOMAIN T = DOMAIN values /\ \A j \in DOMAIN values : T[j] = SeqTerm(values[j].value, g)
  BY Zenon DEF SeqTerms
<1> HIDE DEF T
<1>3. ASSUME NEW v, v.class \notin {"future_object", "future_object_path"}
      PROVE  Current(v) = SeqTerm(v, g)
  BY <1>3 DEF Current, Term, SeqTerm, IsFuture
<1>4. ASSUME NEW i \in DOMAIN Matched(c), Matched(c)[i].value.class # "future_object_path"
      PROVE  Current(Matched(c)[i].value) = SeqTerm(Matched(c)[i].value, g)
  <2>1. PICK v : v = Matched(c)[i].value
    OBVIOUS
  <2>2. CASE v.class = "future_object"
    <3>1. ResultOf(v.of) = SeqTerm(v, g)
      BY Zenon, <2>1, <2>2
    <3>2. Current(v) = ResultOf(v.of)
      BY Zenon, <2>2 DEF Current
    <3>3. QED
      BY Zenon, <2>1, <3>1, <3>2
  <2>3. CASE v.class # "future_object"
    <3>1. v.class \notin {"future_object", "future_object_path"}
      BY Zenon, <1>4, <2>1, <2>3
    <3>2. QED
      BY Zenon, <1>3, <2>1, <3>1
  <2>4. QED
    BY <2>2, <2>3
<1>5. \A j \in DOMAIN values : values[j].value.class # "future_object_path"
  BY Zenon DEF WellWritten
<1>6. CASE t.dots
  <2>1. Matched(c) = VariableArguments(t, values)
    BY Zenon, <1>6 DEF Matched, MatchArguments
  <2>2. DOMAIN Matched(c) = DOMAIN values /\ \A i \in DOMAIN values : Matched(c)[i].value = values[i].value
    BY <2>1 DEF VariableArguments
  <2>3. /\ DOMAIN MatchedArgs(c) = DOMAIN Matched(c)
        /\ \A i \in DOMAIN Matched(c) : MatchedArgs(c)[i].term = Current(Matched(c)[i].value)
    BY DEF MatchedArgs
  <2>4. \A i \in DOMAIN values : MatchedArgs(c)[i].term = T[i]
    BY Zenon, <1>2, <1>4, <1>5, <2>2, <2>3
  <2>5. RBinding(t, MatchedArgs(c)) = [i \in DOMAIN values |-> MatchedArgs(c)[i].term]
    BY Zenon, <1>6, <2>2, <2>3 DEF RBinding
  <2>6. /\ DOMAIN TermsOf(values, T) = DOMAIN values
        /\ \A i \in DOMAIN values : TermsOf(values, T)[i].term = T[i]
    BY DEF TermsOf
  <2>7. RBinding(t, TermsOf(values, T)) = [i \in DOMAIN values |-> TermsOf(values, T)[i].term]
    BY Zenon, <1>6, <2>6 DEF RBinding
  <2>8. [i \in DOMAIN values |-> MatchedArgs(c)[i].term] = [i \in DOMAIN values |-> TermsOf(values, T)[i].term]
    BY Zenon, <2>4, <2>6
  <2>9. QED
    BY Zenon, <1>1, <2>5, <2>7, <2>8
<1>7. CASE ~t.dots
  <2>1. /\ DOMAIN Matched(c) = Positions
        /\ \A i \in Positions : Matched(c)[i].name = Formals[i] /\ Matched(c)[i].value = BoundValue(values, i)
    BY Zenon, <1>7, WellMatched
  <2> DEFINE C == [i \in Positions |-> Current(BoundValue(values, i))]
  <2>2. MatchedArgs(c) = [i \in Positions |-> [name |-> Formals[i], term |-> C[i]]]
    BY Zenon, <2>1 DEF MatchedArgs
  <2>3. RBinding(t, MatchedArgs(c)) = [i \in Positions |-> C[i]]
    <3> HIDE DEF C, t
    <3> QED BY <1>7, <2>2, NamedBinding
  <2>4. RBinding(t, TermsOf(values, T)) = [i \in Positions |-> BoundTerm(TermsOf(values, T), i)]
    <3> HIDE DEF t
    <3> QED BY <1>7, RuleByFormal
  <2>5. ASSUME NEW i \in Positions
        PROVE  C[i] = BoundTerm(TermsOf(values, T), i)
    <3>1. PICK v : v = BoundValue(values, i)
      OBVIOUS
    <3>2. C[i] = Current(v) /\ v.class # "symbol"
      BY Zenon, <1>7, <3>1 DEF WellWritten
    <3>3. CASE \E j \in DOMAIN values : v = values[j].value /\ BoundTerm(TermsOf(values, T), i) = T[j]
      <4>1. PICK j \in DOMAIN values : v = values[j].value /\ BoundTerm(TermsOf(values, T), i) = T[j]
        BY Zenon, <3>3
      <4>2. v.class # "future_object_path"
        BY Zenon, <1>5, <4>1
      <4>3. Current(v) = SeqTerm(v, g)
        BY Zenon, <1>4, <2>1, <3>1, <4>2
      <4>4. QED
        BY Zenon, <1>2, <3>2, <4>1, <4>3
    <3>4. CASE /\ v = FormalArguments[i].value
               /\ Default[Formals[i]] # NoDefault => BoundTerm(TermsOf(values, T), i) = [data |-> Default[Formals[i]]]
      <4>1. v = IF Default[Formals[i]] = NoDefault THEN [class |-> "symbol", of |-> 0]
                ELSE [class |-> "integer", of |-> Default[Formals[i]]]
        BY <3>4 DEF FormalArguments
      <4>2. Default[Formals[i]] # NoDefault
        <5>1. CASE Default[Formals[i]] = NoDefault
          <6>1. v = [class |-> "symbol", of |-> 0]
            BY Zenon, <4>1, <5>1
          <6>2. QED
            BY <3>2, <6>1
        <5>2. QED
          BY <5>1
      <4>3. v = [class |-> "integer", of |-> Default[Formals[i]]]
        BY Zenon, <4>1, <4>2
      <4>4. v.class = "integer" /\ v.of = Default[Formals[i]]
        BY <4>3
      <4>5. Current(v) = [data |-> Default[Formals[i]]]
        BY <4>4 DEF Current, Term
      <4>6. QED
        BY Zenon, <3>2, <3>4, <4>2, <4>5
    <3>5. \/ \E j \in DOMAIN values : BoundValue(values, i) = values[j].value /\ BoundTerm(TermsOf(values, T), i) = T[j]
          \/ /\ BoundValue(values, i) = FormalArguments[i].value
             /\ Default[Formals[i]] # NoDefault => BoundTerm(TermsOf(values, T), i) = [data |-> Default[Formals[i]]]
      <4> HIDE DEF values
      <4>1. IsList(values)
        BY DEF values
      <4>2. QED
        BY <4>1, RuleFollowsLoop
    <3>6. QED
      BY Zenon, <3>1, <3>3, <3>4, <3>5
  <2>6. [i \in Positions |-> C[i]] = [i \in Positions |-> BoundTerm(TermsOf(values, T), i)]
    BY Zenon, <2>5
  <2>7. QED
    BY Zenon, <1>1, <2>3, <2>4, <2>6
<1>8. QED
  BY Zenon, <1>6, <1>7

\* A future among the matched arguments of a call is one of the values it was written with.
LEMMA MatchedFutures ==
  ASSUME FactsInv, FutureInv, NEW n \in DOMAIN calls, NEW i \in DOMAIN Matched(calls[n]),
         Matched(calls[n])[i].value.class = "future_object"
  PROVE  /\ \E j \in DOMAIN calls[n].values : Matched(calls[n])[i].value = calls[n].values[j].value
         /\ LET k == Matched(calls[n])[i].value.of
            IN k \in 1..(n - 1) /\ tstate[k] # "rejected" /\ calls[k].task.return_value
<1>1. PICK s \in Shapes : calls[n].values \in ArgumentLists(s)
  BY DEF FactsInv, ListInv
<1>2. PICK t, values, args : t = calls[n].task /\ values = calls[n].values /\ args = Matched(calls[n])
  OBVIOUS
<1>3. IsList(values) /\ Len(values) <= Len(Formals)
  BY Zenon, <1>1, <1>2, WrittenList
<1>4. args = MatchArguments(t, values)
  BY Zenon, <1>2 DEF Matched
<1>5. \/ \E k \in DOMAIN values : args[i].value = values[k].value
      \/ \E k \in Positions : args[i].value = FormalArguments[k].value
  BY <1>2, <1>3, <1>4, MatchedFrom
<1>6. \A k \in Positions : FormalArguments[k].value.class # "future_object"
  BY DEF FormalArguments
<1>7. args[i].value.class = "future_object"
  BY <1>2
<1>8. PICK j \in DOMAIN values : args[i].value = values[j].value
  BY Zenon, <1>5, <1>6, <1>7
<1>9. IsFuture(values[j].value)
  BY Zenon, <1>7, <1>8 DEF IsFuture
<1>10. LET k == values[j].value.of IN k \in 1..(n - 1) /\ tstate[k] # "rejected" /\ calls[k].task.return_value
  BY Zenon, <1>2, <1>9 DEF FutureInv
<1>11. QED
  BY Zenon, <1>2, <1>8, <1>10

\* In a program of well-written calls every task ran with its sequential arguments, by
\* induction over the calls.
LEMMA BoundAsWritten ==
  ASSUME SubmissionInv, FutureInv, CompleteProgram
  PROVE  BindingPreserved
<1> DEFINE right(k) == k \in DOMAIN calls /\ tstate[k] = "done" => ran[k] = Sequential[k]
           reached(m) == \A k \in 1..m : right(k)
           S == {m \in Nat : reached(m)}
<1>0. FactsInv /\ RunInv /\ StateInv /\ TypeOK /\ ListInv
  BY DEF SubmissionInv, FactsInv
<1>1. Len(calls) \in Nat /\ DOMAIN calls = 1..Len(calls) /\ \A n \in DOMAIN calls : n \in Calls
  BY <1>0, CallFacts
<1>2. ASSUME NEW m \in Nat, reached(m)
      PROVE  right(m + 1)
  <2> SUFFICES ASSUME m + 1 \in DOMAIN calls, tstate[m + 1] = "done"
               PROVE  ran[m + 1] = Sequential[m + 1]
    OBVIOUS
  <2>1. PICK n \in DOMAIN calls : n = m + 1
    OBVIOUS
  <2>2. \A k \in 1..(n - 1) : k \in 1..m
    BY <1>2, <2>1
  <2>3. PICK s \in Shapes : calls[n].values \in ArgumentLists(s)
    BY <1>0 DEF ListInv
  <2>4. WellWritten(calls[n])
    BY DEF CompleteProgram
  <2>5. Complete(calls[n])
    BY <2>3, <2>4, WellWrittenComplete
  <2>6. FuturesDone(n) /\ RanAsMatched(n)
    BY Zenon, <1>0, <2>1, <2>5 DEF RunInv
  <2>7. ASSUME NEW i \in DOMAIN Matched(calls[n]), NEW v, v = Matched(calls[n])[i].value, v.class = "future_object"
        PROVE  ResultOf(v.of) = SeqTerm(v, Sequential)
    <3>1. v.of \in 1..(n - 1)
      BY Zenon, <1>0, <2>7, MatchedFutures
    <3>2. v.of \in DOMAIN calls /\ tstate[v.of] = "done"
      BY Zenon, <2>6, <2>7 DEF FuturesDone
    <3>3. ran[v.of] = Sequential[v.of]
      BY Zenon, <1>2, <2>2, <3>1, <3>2
    <3>4. IsFuture(v)
      BY Zenon, <2>7 DEF IsFuture
    <3>5. QED
      BY Zenon, <3>3, <3>4 DEF ResultOf, SeqTerm
  <2>8. IsList(calls[n].values)
    BY Zenon, <2>3, WrittenList
  <2>9. RBinding(calls[n].task, MatchedArgs(calls[n])) = SequentialArgs(n, Sequential)
    <3>1. \A i \in DOMAIN Matched(calls[n]) :
            LET v == Matched(calls[n])[i].value
            IN v.class = "future_object" => ResultOf(v.of) = SeqTerm(v, Sequential)
      BY Zenon, <2>7
    <3>2. QED
      BY <2>4, <2>8, <3>1, SameBinding
  <2>10. Sequential[n] = SequentialArgs(n, Sequential)
    BY <1>0, SequentialDefined
  <2>11. QED
    BY Zenon, <2>1, <2>6, <2>9, <2>10 DEF RanAsMatched
<1>3. 0 \in S
  OBVIOUS
<1>4. ASSUME NEW m \in Nat, m \in S
      PROVE  m + 1 \in S
  <2>1. reached(m)
    BY <1>4
  <2>2. right(m + 1)
    <3> HIDE DEF right, reached
    <3> QED BY <1>2, <2>1
  <2>3. \A k \in 1..(m + 1) : k \in 1..m \/ k = m + 1
    OBVIOUS
  <2> HIDE DEF right
  <2>4. QED
    BY <2>1, <2>2, <2>3
<1>5. Len(calls) \in S
  <2> HIDE DEF S
  <2> QED BY <1>1, <1>3, <1>4, SetInduction
<1>6. \A n \in DOMAIN calls : tstate[n] = "done" => ran[n] = Sequential[n]
  BY Zenon, <1>1, <1>5
<1>7. \A n \in DOMAIN calls : tstate[n] # "done" => ran[n] = <<>>
  BY Zenon, <1>0, <1>1 DEF StateInv
<1>8. QED
  BY Zenon, <1>6, <1>7 DEF BindingPreserved

\* In a program of well-written calls every task runs with the arguments its call was
\* written with, as the undecorated functions do one call after the other: matching,
\* classification, serialization, the parameter vectors, the files and buildFunctionArgs
\* lose or exchange none, in whatever order the tasks run and fail.
THEOREM TasksRunAsWritten == Spec => [](CompleteProgram => BindingPreserved)
<1>1. SubmissionInv /\ FutureInv => (CompleteProgram => BindingPreserved)
  BY BoundAsWritten
<1>2. QED
  BY SubmissionInvariance, FuturesAreEarlier, <1>1, PTL

\* In such a program compss_wait_on returns the value of the sequential program for a single
\* future, and a list with one entry for each future otherwise: that value, or the future
\* itself for an element future in a list. It fails, or has a path in the place of a value,
\* only where the result of a task is lost.
THEOREM WaitOnAsWritten == Spec => [](CompleteProgram => WaitOnIsSequential)
  BY TasksRunAsWritten, WaitOnFollowsBinding, PTL

\* Every argument list the program uses is well written for every decorated function.
ShapesComplete ==
  \A t \in Tasks, s \in Shapes :
    \A values \in ArgumentLists(s) : WellWritten([task |-> t, values |-> values])

\* What the program uses is what it calls.
LEMMA UsesComplete ==
  ASSUME ShapesComplete, FactsInv, NEW n \in DOMAIN calls
  PROVE  WellWritten(calls[n])
<1>1. PICK s \in Shapes : calls[n].values \in ArgumentLists(s)
  BY DEF FactsInv, ListInv
<1>2. calls[n].task \in Tasks
  BY DEF FactsInv, TypeOK
<1>3. WellWritten([task |-> calls[n].task, values |-> calls[n].values])
  BY Zenon, <1>1, <1>2 DEF ShapesComplete
<1>4. PICK c : c = [task |-> calls[n].task, values |-> calls[n].values]
  OBVIOUS
<1>5. c.task = calls[n].task /\ c.values = calls[n].values
  BY <1>4
<1>6. QED
  BY Zenon, <1>3, <1>4, <1>5 DEF WellWritten

\* Where the argument lists in use are complete for the functions, every task runs with
\* the arguments its call was written with.
THEOREM BindingIsPreserved ==
  ASSUME ShapesComplete
  PROVE  Spec => []BindingPreserved
<1>1. SubmissionInv => CompleteProgram
  BY UsesComplete DEF CompleteProgram, SubmissionInv
<1>2. QED
  BY SubmissionInvariance, TasksRunAsWritten, <1>1, PTL

\* And every value compss_wait_on returns, or puts into the list it returns, is the one of
\* the sequential program.
THEOREM WaitOnReturnsSequential ==
  ASSUME ShapesComplete
  PROVE  Spec => []WaitOnIsSequential
<1>1. Spec => []BindingPreserved
  BY BindingIsPreserved
<1>2. QED
  BY <1>1, WaitOnFollowsBinding, PTL

-----------------------------------------------------------------------------
(***************************************************************************)
(* The dependencies between tasks.                                         *)
(***************************************************************************)
\* No formal is named twice. (R refuses such a call of the undecorated function.)
Distinct(values) == \A i \in Positions : \A j, k \in Named(values, Formals[i]) : j = k

\* There is a free formal for every unnamed value.
LEMMA EnoughFormals ==
  ASSUME NEW values, IsList(values), Len(values) <= Len(Formals)
  PROVE  Cardinality(Named(values, "")) <= Cardinality(Free(values))
<1> DEFINE U == Named(values, "")
           D == DOMAIN values
           F == Free(values)
           B == Positions \ F
           f == [i \in B |-> CHOOSE k \in Named(values, Formals[i]) : TRUE]
<1>1. U \subseteq D /\ F \subseteq Positions
  BY Zenon DEF Named, Free
<1>2. ASSUME NEW i \in B
      PROVE  f[i] \in D \ U /\ values[f[i]].name = Formals[i]
  <2>1. Named(values, Formals[i]) # {}
    BY Zenon, <1>2 DEF Free
  <2>2. f[i] \in Named(values, Formals[i])
    BY Zenon, <2>1, <1>2
  <2> HIDE DEF f
  <2>3. f[i] \in D /\ values[f[i]].name = Formals[i]
    BY Zenon, <2>2 DEF Named
  <2>4. Formals[i] # ""
    BY Zenon, <1>2, FormalsAssumption
  <2>5. QED
    BY Zenon, <2>3, <2>4 DEF Named
<1>3. \A i, j \in Positions : Formals[i] = Formals[j] => i = j
  BY SubmissionAssumption DEF Positions, IsInjective
<1>4. f \in [B -> D \ U]
  <2>1. \A i \in B : f[i] = CHOOSE k \in Named(values, Formals[i]) : TRUE
    BY Zenon
  <2>2. \A i \in B : (CHOOSE k \in Named(values, Formals[i]) : TRUE) \in D \ U
    BY Zenon, <1>2, <2>1
  <2> HIDE DEF U, B, D
  <2>3. QED
    BY <2>2
<1> HIDE DEF U, F, f, D
<1>5. f \in Injection(B, D \ U)
  <2>1. \A i, j \in B : f[i] = f[j] => i = j
    BY Zenon, <1>2, <1>3
  <2>2. DOMAIN f = B
    BY <1>4
  <2>3. IsInjective(f)
    BY Zenon, <2>1, <2>2 DEF IsInjective
  <2>4. QED
    BY <1>4, <2>3 DEF Injection
<1>6. /\ Len(values) \in Nat /\ D = 1..Len(values)
      /\ Len(Formals) \in Nat /\ Positions = 1..Len(Formals)
  BY ListShape, SubmissionAssumption DEF D, Positions
<1>7. /\ IsFiniteSet(D) /\ Cardinality(D) = Len(values)
      /\ IsFiniteSet(Positions) /\ Cardinality(Positions) = Len(Formals)
  <2>1. \A m \in Nat : IsFiniteSet(1..m) /\ Cardinality(1..m) = m
    <3> TAKE m \in Nat
    <3>1. IsFiniteSet(1..m) /\ Cardinality(1..m) = IF 1 > m THEN 0 ELSE m - 1 + 1
      BY FS_Interval
    <3>2. QED
      BY <3>1
  <2>2. QED
    BY <1>6, <2>1
<1>8. /\ IsFiniteSet(D \ U) /\ Cardinality(D \ U) = Cardinality(D) - Cardinality(U)
  <2>1. IsFiniteSet(D \ U) /\ Cardinality(D \ U) = Cardinality(D) - Cardinality(D \cap U)
    BY <1>7, FS_Difference
  <2>2. D \cap U = U
    BY <1>1
  <2>3. QED
    BY <2>1, <2>2
<1>9. Cardinality(B) = Cardinality(Positions) - Cardinality(F)
  <2>1. Cardinality(B) = Cardinality(Positions) - Cardinality(Positions \cap F)
    BY <1>7, FS_Difference
  <2>2. Positions \cap F = F
    BY <1>1
  <2>3. QED
    BY <2>1, <2>2
<1>10. Cardinality(B) <= Cardinality(D \ U)
  BY <1>5, <1>8, FS_Injection
<1>11. Cardinality(U) \in Nat /\ Cardinality(F) \in Nat
  BY <1>1, <1>7, FS_Subset, FS_CardinalityType
<1>12. Cardinality(U) <= Cardinality(F)
  BY <1>6, <1>7, <1>8, <1>9, <1>10, <1>11
<1>13. QED
  BY Zenon, <1>12 DEF U, F

\* The r-th free formal.
LEMMA FreeOfRank ==
  ASSUME NEW values, NEW u \in Nat, u <= Cardinality(Free(values)), NEW r \in 1..u
  PROVE  \E i \in Positions : Named(values, Formals[i]) = {} /\ FreeFormals(values, i) = r /\ r <= u
<1> DEFINE F == Free(values)
<1>1. /\ Len(Formals) \in Nat /\ F \subseteq 1..Len(Formals)
      /\ \A i \in 0..Len(Formals) : FreeFormals(values, i) = Rank(F, i)
  BY Zenon, FreeFacts
<1>2. \A i \in F : i \in Positions /\ Named(values, Formals[i]) = {}
  BY Zenon DEF Free
<1> HIDE DEF F
<1>3. Cardinality(F) \in Nat
  <2>1. IsFiniteSet(1..Len(Formals))
    BY <1>1, FS_Interval
  <2>2. QED
    BY <1>1, <2>1, FS_Subset, FS_CardinalityType
<1>4. r \in 1..Cardinality(F) /\ r <= u
  BY <1>3 DEF F
<1>5. PICK i \in F : Rank(F, i) = r
  <2>1. \A k \in 1..Cardinality(F) : \E i \in F : Rank(F, i) = k
    BY <1>1, RankMember
  <2>2. QED
    BY Zenon, <1>4, <2>1
<1>6. i \in 0..Len(Formals)
  BY <1>1
<1>7. QED
  BY Zenon, <1>1, <1>2, <1>4, <1>5, <1>6

\* The loop binds every value of a call whose names are distinct.
LEMMA EveryValueBound ==
  ASSUME NEW values, IsList(values), Len(values) <= Len(Formals), Distinct(values), NEW j \in DOMAIN values,
         values[j].name = "" \/ \E i \in Positions : values[j].name = Formals[i]
  PROVE  \E i \in Positions : BoundValue(values, i) = values[j].value
<1> DEFINE U == Named(values, "")
           F == Free(values)
           Q == UnnamedValues(values)
<1>1. CASE \E i \in Positions : values[j].name = Formals[i]
  <2>1. PICK i \in Positions : values[j].name = Formals[i]
    BY Zenon, <1>1
  <2>2. j \in Named(values, Formals[i])
    BY Zenon, <2>1 DEF Named
  <2>3. (CHOOSE k \in Named(values, Formals[i]) : TRUE) = j
    BY Zenon, <2>2 DEF Distinct
  <2>4. BoundValue(values, i) = values[j].value
    BY Zenon, <2>2, <2>3 DEF BoundValue
  <2>5. QED
    BY Zenon, <2>4
<1>2. CASE values[j].name = ""
  <2>1. j \in U
    BY Zenon, <1>2 DEF Named
  <2>2. Len(Q) \in Nat /\ Len(Q) = Cardinality(U) /\ Rank(U, j) \in 1..Len(Q) /\ Q[Rank(U, j)] = values[j]
    BY Zenon, <2>1, UnnamedFacts
  <2>3. Cardinality(U) <= Cardinality(F)
    BY Zenon, EnoughFormals
  <2>4. PICK u, r : u = Cardinality(U) /\ r = Rank(U, j)
    OBVIOUS
  <2>5. Len(Q) = u /\ r \in 1..u /\ u \in Nat /\ u <= Cardinality(F) /\ Q[r] = values[j]
    BY Zenon, <2>2, <2>3, <2>4
  <2>6. PICK i \in Positions : Named(values, Formals[i]) = {} /\ FreeFormals(values, i) = r /\ r <= u
    BY Zenon, <2>5, FreeOfRank
  <2>7. BoundValue(values, i) = values[j].value
    BY Zenon, <2>5, <2>6 DEF BoundValue
  <2>8. QED
    BY Zenon, <2>7
<1>3. QED
  BY Zenon, <1>1, <1>2

\* The names in an argument list are names of formals.
LEMMA ArgumentNames ==
  ASSUME NEW s \in Shapes, NEW values \in ArgumentLists(s), NEW j \in DOMAIN values
  PROVE  values[j].name = "" \/ \E i \in Positions : values[j].name = Formals[i]
<1> DEFINE E == [name : Range(Formals) \union {""},
                 class : {"integer", "character", "object", "NULL", "future_object", "future_object_path"}]
<1>1. DOMAIN values = DOMAIN s /\ values[j].name = s[j].name
  BY Zenon, WrittenList
<1>2. s \in Seq(E)
  BY Zenon, SubmissionAssumption DEF Shape
<1>3. DOMAIN Formals = Positions
  BY SubmissionAssumption DEF Positions
<1>4. ASSUME NEW e \in E
      PROVE  e.name = "" \/ \E i \in Positions : e.name = Formals[i]
  <2>1. e.name \in Range(Formals) \union {""}
    BY Zenon, <1>4
  <2>2. QED
    BY Zenon, <1>3, <2>1 DEF Range
<1> HIDE DEF E
<1>5. s[j] \in E
  <2>1. j \in DOMAIN s
    BY <1>1
  <2>2. j \in 1..Len(s)
    BY <1>2, <2>1
  <2>3. QED
    BY <1>2, <2>2, ElementOfSeq
<1>6. QED
  BY Zenon, <1>1, <1>4, <1>5

\* Every value of a call reaches the task.
LEMMA EveryValuePassed ==
  ASSUME NEW c, WellWritten(c), ~c.task.dots => Distinct(c.values),
         NEW s \in Shapes, c.values \in ArgumentLists(s), NEW j \in DOMAIN c.values
  PROVE  \E i \in DOMAIN Matched(c) : Matched(c)[i].value = c.values[j].value
<1>1. CASE c.task.dots
  <2>1. Matched(c) = VariableArguments(c.task, c.values)
    BY Zenon, <1>1 DEF Matched, MatchArguments
  <2>2. DOMAIN Matched(c) = DOMAIN c.values /\ \A i \in DOMAIN c.values : Matched(c)[i].value = c.values[i].value
    BY <2>1 DEF VariableArguments
  <2>3. QED
    BY Zenon, <2>2
<1>2. CASE ~c.task.dots
  <2>1. PICK values : values = c.values
    OBVIOUS
  <2>2. IsList(values) /\ Len(values) <= Len(Formals) /\ Distinct(values) /\ j \in DOMAIN values
    BY Zenon, <1>2, <2>1, WrittenList
  <2>3. values[j].name = "" \/ \E i \in Positions : values[j].name = Formals[i]
    BY Zenon, <2>1, ArgumentNames
  <2>4. PICK i \in Positions : BoundValue(values, i) = values[j].value
    BY Zenon, <2>2, <2>3, EveryValueBound
  <2>5. i \in DOMAIN Matched(c) /\ Matched(c)[i].value = BoundValue(values, i)
    BY Zenon, <1>2, <2>1, <2>2, WellMatched
  <2>6. QED
    BY Zenon, <2>1, <2>4, <2>5
<1>3. QED
  BY <1>1, <1>2

\* The return files among the inputs of a task are those of its futures, and its only
\* output is its own return file.
LEMMA TaskFiles ==
  ASSUME FactsInv, NEW n \in DOMAIN calls, tstate[n] # "rejected", Complete(calls[n])
  PROVE  /\ \A k : RetPath(k) \in Inputs(n) <=>
                     \E i \in DOMAIN Matched(calls[n]) :
                       Matched(calls[n])[i].value.class = "future_object" /\ Matched(calls[n])[i].value.of = k
         /\ Outputs(n) = IF calls[n].task.return_value THEN {RetPath(n)} ELSE {}
<1> DEFINE args == Matched(calls[n])
           m == Len(args)
           r == Returns(calls[n])
           ps == params[n]
           input(i) == ps[i].type = 10 /\ ps[i].direction = 0
           output(i) == ps[i].type = 10 /\ ps[i].direction = 1
<1>1. PICK s \in Shapes : calls[n].values \in ArgumentLists(s)
  BY DEF ListInv, FactsInv
<1>2. IsList(args) /\ m \in Nat /\ DOMAIN args = 1..m /\ \A i \in DOMAIN args : args[i].value.class # "symbol"
  BY <1>1, CallFacts, MatchedShape DEF FactsInv, Complete
<1>3. r \in {0, 1} /\ ps = Parameters(n, args, r) /\ (r = 1 <=> calls[n].task.return_value)
  BY DEF FactsInv, ParamInv, Returns
<1>4. /\ Inputs(n) = {ps[i].value.of : i \in {k \in DOMAIN ps : input(k)}}
      /\ Outputs(n) = {ps[i].value.of : i \in {k \in DOMAIN ps : output(k)}}
  BY Zenon DEF Inputs, Outputs
<1> HIDE DEF args, r
<1>5. /\ IsList(ps) /\ Len(ps) = m + r
      /\ \A i \in 1..m : /\ ps[i].value = Processed(n, i, args[i].value)
                         /\ ps[i].type = Classify(args[i].value).type
                         /\ ps[i].direction = 0
      /\ r = 1 => ps[m + 1].value.of = RetPath(n) /\ ps[m + 1].type = 10 /\ ps[m + 1].direction = 1
  <2>1. ps = Parameters(n, args, r)
    BY <1>3
  <2> HIDE DEF m, ps
  <2>2. /\ IsList(ps) /\ Len(ps) = Len(args) + r
        /\ \A i \in 1..Len(args) : /\ ps[i].value = Processed(n, i, args[i].value)
                                   /\ ps[i].type = Classify(args[i].value).type
                                   /\ ps[i].direction = 0
        /\ r = 1 => LET p == ps[Len(args) + 1] IN p.value.of = RetPath(n) /\ p.type = 10 /\ p.direction = 1
    BY <2>1, <1>2, <1>3, AllParameters
  <2>3. QED
    BY <2>2 DEF m
<1> HIDE DEF m, ps
<1>6. /\ \A i \in 1..m : i \in DOMAIN ps
      /\ \A i \in DOMAIN ps : i \in 1..m \/ (r = 1 /\ i = m + 1)
      /\ r = 1 => m + 1 \in DOMAIN ps
  <2>1. DOMAIN ps = 1..(m + r)
    BY <1>5, ListShape
  <2>2. QED
    BY <1>2, <1>3, <2>1
<1>7. ASSUME NEW i \in 1..m, NEW v, v = args[i].value, NEW k
      PROVE  input(i) /\ ps[i].value.of = RetPath(k) <=> v.class = "future_object" /\ v.of = k
  <2>1. ps[i].value = Processed(n, i, v) /\ ps[i].type = Classify(v).type /\ ps[i].direction = 0 /\ v.class # "symbol"
    BY <1>2, <1>5, <1>7
  <2>2. CASE v.class \in {"integer", "character"}
    <3>1. Classify(v).type # 10
      BY <2>2 DEF Classify
    <3>2. QED
      BY <2>1, <2>2, <3>1
  <2>3. CASE v.class = "future_object"
    <3>1. Classify(v).type = 10 /\ Classify(v).content = "future_object"
      BY <2>3 DEF Classify
    <3>2. ps[i].value.of = RetPath(v.of)
      BY <2>1, <3>1 DEF Processed
    <3>3. QED
      BY <2>1, <2>3, <3>1, <3>2, PathFacts
  <2>4. CASE v.class \notin {"integer", "character", "future_object"}
    <3>1. Classify(v).type = 10 /\ Classify(v).content = "object"
      BY <2>4 DEF Classify
    <3>2. ps[i].value.of = ArgPath(n, i)
      BY <2>1, <3>1 DEF Processed
    <3>3. QED
      BY <2>4, <3>2, PathFacts
  <2>5. QED
    BY <2>2, <2>3, <2>4
<1>8. (\A i \in 1..m : ~output(i)) /\ (r = 1 => output(m + 1) /\ ~input(m + 1))
  BY <1>5
<1> HIDE DEF input, output
<1>9. \A k : RetPath(k) \in Inputs(n) <=> \E i \in 1..m : input(i) /\ ps[i].value.of = RetPath(k)
  BY Zenon, <1>4, <1>6, <1>8
<1>10. Outputs(n) = IF r = 1 THEN {RetPath(n)} ELSE {}
  <2>1. \A p : p \in Outputs(n) <=> \E i \in DOMAIN ps : output(i) /\ p = ps[i].value.of
    BY Zenon, <1>4
  <2>2. CASE r = 1
    <3>1. \A p : p \in Outputs(n) <=> p = RetPath(n)
      BY Zenon, <1>5, <1>6, <1>8, <2>1, <2>2
    <3>2. QED
      BY <2>2, <3>1
  <2>3. CASE r # 1
    <3>1. \A p : p \notin Outputs(n)
      BY Zenon, <1>6, <1>8, <2>1, <2>3
    <3>2. QED
      BY <2>3, <3>1
  <2>4. QED
    BY <2>2, <2>3
<1>11. \A k : RetPath(k) \in Inputs(n) <=> \E i \in DOMAIN args : args[i].value.class = "future_object" /\ args[i].value.of = k
  <2>1. \A i \in 1..m : \A k :
          input(i) /\ ps[i].value.of = RetPath(k) <=> args[i].value.class = "future_object" /\ args[i].value.of = k
    BY Zenon, <1>7
  <2>2. \A k : (\E i \in 1..m : input(i) /\ ps[i].value.of = RetPath(k))
                <=> (\E i \in 1..m : args[i].value.class = "future_object" /\ args[i].value.of = k)
    BY Zenon, <2>1
  <2>3. QED
    BY Zenon, <1>2, <1>9, <2>2
<1>12. QED
  BY Zenon, <1>3, <1>10, <1>11 DEF args

\* The calls whose futures call n was written with.
Dependencies(n) ==
  {calls[n].values[i].value.of :
     i \in {k \in DOMAIN calls[n].values : calls[n].values[k].value.class = "future_object"}}

\* No call names a formal twice.
DistinctProgram == \A n \in DOMAIN calls : ~calls[n].task.dots => Distinct(calls[n].values)

\* The matched futures of a call are those it was written with.
LEMMA FuturesPassed ==
  ASSUME FactsInv, FutureInv, CompleteProgram, DistinctProgram, NEW n \in DOMAIN calls, NEW k
  PROVE  k \in Dependencies(n) <=>
           \E i \in DOMAIN Matched(calls[n]) :
             Matched(calls[n])[i].value.class = "future_object" /\ Matched(calls[n])[i].value.of = k
<1> DEFINE args == Matched(calls[n])
           values == calls[n].values
<1>1. PICK s \in Shapes : calls[n].values \in ArgumentLists(s)
  BY DEF ListInv, FactsInv
<1>2. \A j \in DOMAIN values : \E i \in DOMAIN args : args[i].value = values[j].value
  <2>1. WellWritten(calls[n]) /\ (~calls[n].task.dots => Distinct(calls[n].values))
    BY Zenon DEF CompleteProgram, DistinctProgram
  <2>2. QED
    BY Zenon, <1>1, <2>1, EveryValuePassed
<1>3. \A i \in DOMAIN args :
        args[i].value.class = "future_object" => \E j \in DOMAIN values : args[i].value = values[j].value
  BY Zenon, MatchedFutures
<1>4. k \in Dependencies(n) <=> \E j \in DOMAIN values : values[j].value.class = "future_object" /\ values[j].value.of = k
  BY Zenon DEF Dependencies
<1> HIDE DEF args, values
<1>5. k \in Dependencies(n) <=> \E i \in DOMAIN args : args[i].value.class = "future_object" /\ args[i].value.of = k
  BY Zenon, <1>2, <1>3, <1>4
<1>6. QED
  BY Zenon, <1>5 DEF args

\* The invariant behind DependenciesRespected: a task waits for the tasks of its futures
\* and for no other.
LEMMA WaitsForFutures ==
  ASSUME SubmissionInv, FutureInv, CompleteProgram, DistinctProgram
  PROVE  DependenciesRespected
<1>0. FactsInv /\ RunInv /\ StateInv /\ ListInv /\ TypeOK
  BY DEF SubmissionInv, FactsInv
<1>1. ASSUME NEW n \in DOMAIN calls
      PROVE  Complete(calls[n])
  <2>1. PICK s \in Shapes : calls[n].values \in ArgumentLists(s)
    BY <1>0 DEF ListInv
  <2>2. QED
    BY <2>1, WellWrittenComplete DEF CompleteProgram
<1>2. Len(calls) \in Nat /\ DOMAIN calls = 1..Len(calls) /\ \A n \in DOMAIN calls : n \in Calls
  BY <1>0, CallFacts
<1>3. ASSUME NEW n \in DOMAIN calls, ran[n] # <<>>, NEW k \in Dependencies(n)
      PROVE  tstate[k] = "done"
  <2>1. tstate[n] = "done"
    BY Zenon, <1>0, <1>2, <1>3 DEF StateInv
  <2>2. FuturesDone(n)
    BY Zenon, <1>0, <1>1, <2>1 DEF RunInv
  <2>3. PICK i \in DOMAIN Matched(calls[n]) :
          Matched(calls[n])[i].value.class = "future_object" /\ Matched(calls[n])[i].value.of = k
    BY Zenon, <1>0, <1>3, FuturesPassed
  <2>4. QED
    BY Zenon, <2>2, <2>3 DEF FuturesDone
<1>4. ASSUME NEW n \in DOMAIN calls, tstate[n] = "queued"
      PROVE  Producers(n) = Dependencies(n)
  <2>0. tstate[n] # "rejected"
    BY <1>4
  <2>1. \A k : RetPath(k) \in Inputs(n) <=> k \in Dependencies(n)
    <3>1. \A k : RetPath(k) \in Inputs(n) <=>
                   \E i \in DOMAIN Matched(calls[n]) :
                     Matched(calls[n])[i].value.class = "future_object" /\ Matched(calls[n])[i].value.of = k
      BY Zenon, <1>0, <1>1, <2>0, TaskFiles
    <3>2. \A k : k \in Dependencies(n) <=>
                   \E i \in DOMAIN Matched(calls[n]) :
                     Matched(calls[n])[i].value.class = "future_object" /\ Matched(calls[n])[i].value.of = k
      BY Zenon, <1>0, FuturesPassed
    <3>3. QED
      BY Zenon, <3>1, <3>2
  <2>2. ASSUME NEW k \in 1..(n - 1), tstate[k] # "rejected"
        PROVE  Outputs(k) = IF calls[k].task.return_value THEN {RetPath(k)} ELSE {}
    <3>1. k \in DOMAIN calls
      BY <1>2
    <3>2. QED
      BY Zenon, <1>0, <1>1, <2>2, <3>1, TaskFiles
  <2>3. ASSUME NEW k \in Dependencies(n)
        PROVE  k \in 1..(n - 1) /\ tstate[k] # "rejected" /\ calls[k].task.return_value
    <3>1. PICK i \in DOMAIN Matched(calls[n]) :
            Matched(calls[n])[i].value.class = "future_object" /\ Matched(calls[n])[i].value.of = k
      BY Zenon, <1>0, <2>3, FuturesPassed
    <3>2. QED
      BY Zenon, <1>0, <3>1, MatchedFutures
  <2>4. ASSUME NEW k
        PROVE  k \in Producers(n) <=> k \in Dependencies(n)
    <3>1. k \in Producers(n) <=> k \in 1..(n - 1) /\ tstate[k] # "rejected" /\ \E p : p \in Outputs(k) /\ p \in Inputs(n)
      BY Zenon DEF Producers
    <3>2. CASE k \in Dependencies(n)
      <4>1. k \in 1..(n - 1) /\ tstate[k] # "rejected" /\ RetPath(k) \in Outputs(k) /\ RetPath(k) \in Inputs(n)
        <5>1. k \in 1..(n - 1) /\ tstate[k] # "rejected" /\ calls[k].task.return_value
          BY Zenon, <2>3, <3>2
        <5>2. Outputs(k) = {RetPath(k)}
          BY Zenon, <2>2, <5>1
        <5>3. QED
          BY Zenon, <2>1, <3>2, <5>1, <5>2
      <4>2. QED
        BY Zenon, <3>1, <3>2, <4>1
    <3>3. CASE k \notin Dependencies(n)
      <4>1. RetPath(k) \notin Inputs(n)
        BY Zenon, <2>1, <3>3
      <4>2. k \in 1..(n - 1) /\ tstate[k] # "rejected" => \A p \in Outputs(k) : p = RetPath(k)
        BY <2>2
      <4>3. QED
        BY Zenon, <3>1, <3>3, <4>1, <4>2
    <3>4. QED
      BY <3>2, <3>3
  <2>5. QED
    BY Zenon, <2>4
<1>5. QED
  BY Zenon, <1>3, <1>4 DEF DependenciesRespected, Dependencies

\* In a program of well-written calls a task runs only after the tasks of all its futures
\* have ended successfully, and waits for no other task: no future is lost between the
\* call and the dependencies the runtime derives from the parameters.
THEOREM TasksWaitForFutures == Spec => [](CompleteProgram /\ DistinctProgram => DependenciesRespected)
<1>1. SubmissionInv /\ FutureInv => (CompleteProgram /\ DistinctProgram => DependenciesRespected)
  BY WaitsForFutures
<1>2. QED
  BY SubmissionInvariance, FuturesAreEarlier, <1>1, PTL

\* The argument lists in use name no formal twice.
ShapesDistinct == \A s \in Shapes : \A i \in Positions : \A j, k \in Named(s, Formals[i]) : j = k

\* Where the argument lists in use are complete for the functions and name no formal
\* twice, the dependencies of every task are its futures.
THEOREM DependenciesAreRespected ==
  ASSUME ShapesComplete, ShapesDistinct
  PROVE  Spec => []DependenciesRespected
<1>1. SubmissionInv => CompleteProgram
  BY UsesComplete DEF CompleteProgram, SubmissionInv
<1>2. SubmissionInv => DistinctProgram
  <2> SUFFICES ASSUME SubmissionInv, NEW n \in DOMAIN calls
               PROVE  Distinct(calls[n].values)
    BY DEF DistinctProgram
  <2>1. PICK s \in Shapes : calls[n].values \in ArgumentLists(s)
    BY DEF ListInv, FactsInv, SubmissionInv
  <2>2. PICK values : values = calls[n].values
    OBVIOUS
  <2>3. DOMAIN values = DOMAIN s /\ \A i \in DOMAIN s : values[i].name = s[i].name
    BY Zenon, <2>1, <2>2, WrittenList
  <2>4. \A x : Named(values, x) = Named(s, x)
    BY <2>3 DEF Named
  <2>5. Distinct(values)
    BY Zenon, <2>1, <2>4, ShapesDistinct DEF Distinct, ShapesDistinct
  <2>6. QED
    BY <2>2, <2>5
<1>3. QED
  BY SubmissionInvariance, TasksWaitForFutures, <1>1, <1>2, PTL
=============================================================================
