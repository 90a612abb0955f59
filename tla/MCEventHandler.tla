--------------------------- MODULE MCEventHandler ---------------------------
(* Instances of EventHandler for TLC. *)
EXTENDS EventHandler, TLC

CONSTANTS k1, k2, k3, a, b, t1, t2
ThreeKeys == {k1, k2, k3}
TwoOwners == {a, b}
TwoThreads == {t1, t2}
Perms == Permutations(ThreeKeys) \cup Permutations(TwoOwners) \cup Permutations(TwoThreads)
=============================================================================
