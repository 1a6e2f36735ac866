------------------------- MODULE MCSubscriptionGate -------------------------
(* SubscriptionGate with interchangeable attempts and identities.          *)
EXTENDS SubscriptionGate, TLC

Symmetry == Permutations(Attempts) \cup Permutations(Identities)
=============================================================================
