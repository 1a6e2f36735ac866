-------------------------- MODULE MCSamplingLease --------------------------
(* SamplingLease with interchangeable invocations.            *)
EXTENDS SamplingLease, TLC

Symmetry == Permutations(Holders)
============================================================================
