---------------------------- MODULE MCMeterSpool ----------------------------
(* MeterSpool with interchangeable attempts and drainers.  Sound only when *)
(* no attempt is singled out as Fragile.                                   *)
EXTENDS MeterSpool, TLC

Symmetry == Permutations(Attempts) \cup Permutations(Drainers)
=============================================================================
