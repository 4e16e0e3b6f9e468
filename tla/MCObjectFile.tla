---------------------------- MODULE MCObjectFile ----------------------------
(* Values of ObjectFile's constants for TLC: one object for each way in which the
   encodings of different objects could run into each other. *)
EXTENDS ObjectFile, ObjectCodec

MCLower == [cpp |-> "cpp", CPP |-> "cpp", qs |-> "qs", QS |-> "qs", RMVL |-> "rmvl", rmvl |-> "rmvl"]

Zero == Plain("integer", <<0>>)
Axes == Vector("list", <<Plain("character", <<"r">>), Nil>>, <<"rows", "">>, <<>>, Nil, "")

MCObjs ==
  { Nil,
    Plain("integer", <<2, 1>>),
    Plain("double", <<1, 2>>),
    Plain("logical", <<>>),
    Plain("character", <<NA, "", "a">>),
    Plain("list", <<Zero, Nil>>),
    Plain("closure", <<>>),
    Plain("list", <<Zero, Plain("closure", <<>>)>>),
    Vector("integer", <<5>>, <<"x">>, <<>>, Nil, "factor"),
    Vector("integer", <<3, 4>>, <<>>, <<1, 2>>, Axes, ""),
    Vector("list", <<Zero>>, <<"one">>, <<1>>, Plain("list", <<Plain("character", <<"a">>)>>), ""),
    Vector("list", <<Plain("list", <<Zero, Zero>>), Zero>>, <<"p", NA>>, <<>>, Nil, "") }
=============================================================================
