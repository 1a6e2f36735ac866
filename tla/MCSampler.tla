----------------------------- MODULE MCSampler -----------------------------
(* Sampler with interchangeable invocations. *)
EXTENDS Sampler, TLC

Symmetry == Permutations(Invocations)
============================================================================
