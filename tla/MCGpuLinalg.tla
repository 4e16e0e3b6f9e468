---------------------------- MODULE MCGpuLinalg ----------------------------
(***************************************************************************)
(* Matrices of every form, an int of three bits, and vectors whose length  *)
(* it can hold, turns negative (5) or takes for another one (9).           *)
(***************************************************************************)
EXTENDS GpuLinalg

Letters(s, u, t, d) == [side |-> s, uplo |-> u, trans |-> t, diag |-> d]

MCShapes == {<<0, 1>>, <<1, 1>>, <<1, 2>>, <<2, 1>>, <<2, 2>>}

MCOptions == {Letters("L", "U", "N", "N"), Letters("r", "l", "c", "u"), Letters("L", "U", "?", "N")}
=============================================================================
