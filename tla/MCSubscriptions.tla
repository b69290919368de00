-------------------------- MODULE MCSubscriptions --------------------------
(* Instance of Subscriptions for TLC. *)
EXTENDS Subscriptions, TLC

CONSTANTS k1, k2, k3, d1, d2

Symmetry == Permutations({k1, k2, k3}) \cup Permutations({d1, d2})

============================================================================
