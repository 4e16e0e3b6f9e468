---------------------------- MODULE ObjectUnits ----------------------------
(***************************************************************************)
(* What the writer and the reader of R objects agree on: the objects, the  *)
(* units of the "cpp" format (what one readBytes or writeBytes moves), its *)
(* versions and its tags, and what a step of the reader gives.             *)
(***************************************************************************)
EXTENDS Integers, Sequences, FiniteSets, SequencesExt

CONSTANT ProtectLimit   \* R's pointer protection stack (50000 in R)

NA == "NA"
Nil == [type |-> "NULL"]

\* An R vector or list: names is <<>> or as long as data, dim is <<>> without a dim
\* attribute, and class stands for all other attributes.
Vector(type, data, names, dim, dimnames, class) ==
  [type |-> type, data |-> data, names |-> names, dim |-> dim, dimnames |-> dimnames, class |-> class]

Plain(type, data) == Vector(type, data, <<>>, <<>>, Nil, "")

I32(n) == [unit |-> "i", is |-> n]
F64(x) == [unit |-> "d", is |-> x]
Bytes(s) == [unit |-> "b", is |-> s]
Throws == [unit |-> "throws"]              \* the writer throws instead of writing

kMagic == -7             \* no other unit of the model has this value
kVersion == 3
kMinReadVersion == 1
Tag == [NULL |-> 0, logical |-> 1, integer |-> 2, double |-> 3, character |-> 4, list |-> 5, array |-> 6]
Types == {"logical", "integer", "double", "character", "list"}

\* The steps of the reader give the value and the units t that are left, with n vectors
\* protected by then, or Bad.
Bad == [ok |-> FALSE]
Good(val, t, n) == [ok |-> TRUE, val |-> val, t |-> t, n |-> n]

HasUnit(t, u) == t # <<>> /\ Head(t).unit = u
=============================================================================
