----------------------------- MODULE MCExecutor -----------------------------
(* Values of Executor's constants for TLC. *)
EXTENDS Executor

\* m1 defines f only, m2 redefines f and adds g.
MCDefs == [m \in Modules |-> IF m = "m1" THEN {"f"} ELSE {"f", "g"}]

\* A bound task that returns a value, an unbound one that returns nothing, and one
\* that names a function its module lacks.
MCRequests ==
  { [cpus |-> "0", gpus |-> "-", module |-> "m1", func |-> "f", returns |-> TRUE],
    [cpus |-> "-", gpus |-> "0", module |-> "m2", func |-> "f", returns |-> FALSE],
    [cpus |-> "1", gpus |-> "1", module |-> "m1", func |-> "g", returns |-> FALSE] }
=============================================================================
