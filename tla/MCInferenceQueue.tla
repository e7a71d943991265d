-------------------------- MODULE MCInferenceQueue --------------------------
(* Small instances of InferenceQueue for TLC. *)
EXTENDS InferenceQueue, TLC

\* Requests are interchangeable, and so are lanes.
QueueSymmetry == Permutations(ReqIds) \cup Permutations(Lanes)
=============================================================================
