--------------------------- MODULE MCLlamaServer ---------------------------
(* Model checking instances of LlamaServer. *)
EXTENDS LlamaServer, TLC

ProcSymmetry == Permutations(Procs)
=============================================================================
