---------------------------- MODULE MCEventGroups ----------------------------
(* Small instances of EventGroups for TLC. *)
EXTENDS EventGroups, TLC

CONSTANTS k1, k2, k3, m1, m2, a1, a2, a3, t1, t2

\* Assets, keys and manual ids are interchangeable.
EventSymmetry == Permutations(Assets) \cup Permutations(Keys) \cup Permutations(ManualIds)
=============================================================================
