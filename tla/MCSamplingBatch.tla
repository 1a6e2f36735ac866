-------------------------- MODULE MCSamplingBatch --------------------------
(* SamplingBatch with more accounts than workers. *)
EXTENDS SamplingBatch
============================================================================
