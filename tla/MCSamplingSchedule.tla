------------------------ MODULE MCSamplingSchedule ------------------------
(* SamplingSchedule with interchangeable credential contexts.              *)
EXTENDS SamplingSchedule, TLC

Symmetry == Permutations(Contexts)
===========================================================================
