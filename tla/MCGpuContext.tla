---------------------------- MODULE MCGpuContext ----------------------------
(* Values of GpuContext's constants for TLC. *)
EXTENDS GpuContext, TLC

BufferSymmetry == Permutations(Buffers)
=============================================================================
