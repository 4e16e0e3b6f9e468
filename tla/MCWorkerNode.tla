---------------------------- MODULE MCWorkerNode ----------------------------
(* Values of WorkerNode's constants for TLC. *)
EXTENDS WorkerNode

MCExecutors == 0..1
MCDefs == [m \in Modules |-> Funcs]
MCRequests == { [cpus |-> "-", gpus |-> "-", module |-> "m1", func |-> "f", returns |-> FALSE] }
=============================================================================
