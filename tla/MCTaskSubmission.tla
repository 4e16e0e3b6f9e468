------------------------- MODULE MCTaskSubmission -------------------------
(***************************************************************************)
(* One R function of two formals, the second with a default, decorated     *)
(* with two constraint lists, with both return types and for information   *)
(* only, and a function of "...".                                          *)
(***************************************************************************)
EXTENDS TaskSubmission

MCFormals == <<"x", "y">>
MCDefault == [x |-> NoDefault, y |-> "dflt"]
MCFuncName == [f |-> <<"f">>, g |-> <<"g">>]
MCSignature == [none |-> <<>>, cpu1 |-> <<"c", ":", "1">>, cpu4 |-> <<"c", ":", "4">>]
MCAlphanumeric == {"c", "1", "4"}

ListTask == [func |-> "f", dots |-> FALSE, constraint |-> "cpu1", info_only |-> FALSE,
             return_value |-> TRUE, return_type |-> "list"]
ElementTask == [ListTask EXCEPT !.constraint = "cpu4", !.return_type = "element"]
SilentTask == [ListTask EXCEPT !.constraint = "none", !.return_value = FALSE]
DotsTask == [ListTask EXCEPT !.func = "g", !.dots = TRUE]
InfoTask == [ListTask EXCEPT !.info_only = TRUE]
MCTasks == {ListTask, ElementTask, SilentTask, DotsTask, InfoTask}

Arg(name, class) == [name |-> name, class |-> class]
CompleteShapes ==
  {<<Arg("", "character")>>, <<Arg("y", "integer"), Arg("", "object")>>,
   <<Arg("", "future_object"), Arg("", "object")>>}

\* f(y = v): formal x, which has no default, gets no argument.
MissingShapes == {<<Arg("y", "object")>>}
SilentTasks == {SilentTask}
===========================================================================
