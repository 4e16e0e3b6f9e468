---------------------------- MODULE ObjectCodec ----------------------------
(***************************************************************************)
(* The "cpp" serializer: the recursive writer and reader of one R object,  *)
(* unit by unit, and what a version of the format keeps of an object.      *)
(***************************************************************************)
EXTENDS ObjectUnits

writeString(s) ==
  IF s = NA THEN <<I32(-1)>>
  ELSE IF s = "" THEN <<I32(0)>> ELSE <<I32(1), Bytes(s)>>

RECURSIVE writeSEXP(_, _)

\* Mutant: the array wrapper leaves dimnames out.
writeDimOnly(o, v) ==
  IF v >= 3 /\ o.dim # <<>>
  THEN <<I32(Tag.array)>> \o writeSEXP(Plain("integer", o.dim), v)
  ELSE <<>>

\* The array wrapper; writers before version 3 had none.
writeDims(o, v) ==
  IF v >= 3 /\ o.dim # <<>>
  THEN <<I32(Tag.array)>> \o writeSEXP(Plain("integer", o.dim), v) \o writeSEXP(o.dimnames, v)
  ELSE <<>>

writeNames(o, v) ==
  IF o.type # "list" \/ v < 2 THEN <<>>
  ELSE <<I32(IF o.names = <<>> THEN 0 ELSE 1)>> \o FlattenSeq([i \in DOMAIN o.names |-> writeString(o.names[i])])

writeElement(type, x, v) ==
  CASE type \in {"logical", "integer"} -> <<I32(x)>>
    [] type = "double" -> <<F64(x)>>
    [] type = "character" -> writeString(x)
    [] type = "list" -> writeSEXP(x, v)

\* The code writes a length as 32 bits: objects of fewer than 2^32 elements.
writeSEXP(o, v) ==
  CASE o = Nil -> <<I32(Tag.NULL)>>
    [] o # Nil /\ o.type \in Types ->
         writeDims(o, v) \o <<I32(Tag[o.type]), I32(Len(o.data))>> \o writeNames(o, v)
           \o FlattenSeq([i \in DOMAIN o.data |-> writeElement(o.type, o.data[i], v)])
    [] OTHER -> <<Throws>>

-----------------------------------------------------------------------------
(***************************************************************************)
(* The reader.  A step takes the units t that are left and the number n of *)
(* protected vectors.                                                      *)
(***************************************************************************)
readI32(t, n) == IF HasUnit(t, "i") THEN Good(Head(t).is, Tail(t), n) ELSE Bad

\* Mutant: nobody looks whether the bytes of a string are there.
readStringUnchecked(t, n) ==
  CASE ~HasUnit(t, "i") -> Bad
    [] HasUnit(t, "i") /\ Head(t).is = -1 -> Good(NA, Tail(t), n)
    [] HasUnit(t, "i") /\ Head(t).is > 0 /\ HasUnit(Tail(t), "b") -> Good(t[2].is, Tail(Tail(t)), n)
    [] OTHER -> Good("", Tail(t), n)

readString(t, n) ==
  CASE ~HasUnit(t, "i") -> Bad
    [] HasUnit(t, "i") /\ Head(t).is = -1 -> Good(NA, Tail(t), n)
    [] HasUnit(t, "i") /\ Head(t).is = 0 -> Good("", Tail(t), n)
    [] HasUnit(t, "i") /\ Head(t).is > 0 /\ HasUnit(Tail(t), "b") -> Good(t[2].is, Tail(Tail(t)), n)
    [] OTHER -> Bad

RECURSIVE readSEXP(_, _, _)

readElement(type, t, v, n) ==
  CASE type \in {"logical", "integer"} -> readI32(t, n)
    [] type = "double" -> IF HasUnit(t, "d") THEN Good(Head(t).is, Tail(t), n) ELSE Bad
    [] type = "character" -> readString(t, n)
    [] type = "list" -> readSEXP(t, v, n)

RECURSIVE readElements(_, _, _, _, _)

readElements(type, len, t, v, n) ==
  IF len <= 0 THEN Good(<<>>, t, n)
  ELSE LET x == readElement(type, t, v, n) IN
       IF ~x.ok THEN Bad
       ELSE LET xs == readElements(type, len - 1, x.t, v, x.n) IN
            IF ~xs.ok THEN Bad ELSE Good(<<x.val>> \o xs.val, xs.t, xs.n)

\* Mutant: the flag is expected in every version.
readNamesAlways(type, len, t, v, n) ==
  IF type # "list" THEN Good(<<>>, t, n)
  ELSE LET flag == readI32(t, n) IN
       IF ~flag.ok \/ flag.val \notin {0, 1} THEN Bad
       ELSE IF flag.val = 0 THEN Good(<<>>, flag.t, n)
       ELSE readElements("character", len, flag.t, v, n)

\* The name flag of a list and its names, which take one more place on R's stack.
readNames(type, len, t, v, n) ==
  IF type # "list" \/ v < 2 THEN Good(<<>>, t, n)
  ELSE LET flag == readI32(t, n) IN
       IF ~flag.ok \/ flag.val \notin {0, 1} THEN Bad
       ELSE IF flag.val = 0 THEN Good(<<>>, flag.t, n)
       ELSE IF n >= ProtectLimit THEN Bad
       ELSE readElements("character", len, flag.t, v, n)

readArray(t, v, n) ==
  LET dims == readSEXP(t, v, n) IN
  IF ~dims.ok THEN Bad
  ELSE LET dimnames == readSEXP(dims.t, v, dims.n) IN
       IF ~dimnames.ok THEN Bad
       ELSE LET value == readSEXP(dimnames.t, v, dimnames.n) IN
            IF ~value.ok \/ value.val = Nil THEN Bad
            ELSE Good([value.val EXCEPT !.dim = dims.val.data, !.dimnames = dimnames.val], value.t, value.n)

readVector(type, t, v, n) ==
  LET len == readI32(t, n) IN
  IF ~len.ok \/ n >= ProtectLimit THEN Bad
  ELSE LET names == readNames(type, len.val, len.t, v, n + 1) IN
       IF ~names.ok THEN Bad
       ELSE LET data == readElements(type, len.val, names.t, v, n + 1) IN
            IF ~data.ok THEN Bad
            ELSE Good(Vector(type, data.val, names.val, <<>>, Nil, ""), data.t, data.n)

readSEXP(t, v, n) ==
  LET tag == readI32(t, n) IN
  CASE ~tag.ok -> Bad
    [] tag.ok /\ tag.val = Tag.NULL -> Good(Nil, tag.t, n)
    [] tag.ok /\ tag.val = Tag.array -> IF v < 3 THEN Bad ELSE readArray(tag.t, v, n)
    [] tag.ok /\ \E type \in Types : tag.val = Tag[type] ->
         readVector(CHOOSE type \in Types : tag.val = Tag[type], tag.t, v, n)
    [] OTHER -> Bad

-----------------------------------------------------------------------------
(***************************************************************************)
(* What reading back should give.                                          *)
(***************************************************************************)
RECURSIVE Stored(_, _)

\* What version v keeps of an object: names of lists from 2 on, dim and dimnames from 3
\* on, other attributes never.
Stored(o, v) ==
  IF o = Nil THEN Nil
  ELSE Vector(o.type,
              IF o.type = "list" THEN [i \in DOMAIN o.data |-> Stored(o.data[i], v)] ELSE o.data,
              IF o.type = "list" /\ v >= 2 THEN o.names ELSE <<>>,
              IF v >= 3 THEN o.dim ELSE <<>>,
              IF v >= 3 THEN Stored(o.dimnames, v) ELSE Nil,
              "")

RECURSIVE Vectors(_)

\* How many vectors the reader allocates for an object.
Vectors(o) ==
  IF o = Nil THEN 0
  ELSE 1 + (IF o.type = "list" THEN FoldLeft(+, 0, [i \in DOMAIN o.data |-> Vectors(o.data[i])]) ELSE 0)
         + (IF o.dim # <<>> THEN 1 + Vectors(o.dimnames) ELSE 0)
=============================================================================
