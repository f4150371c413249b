------------------------------- MODULE MCKeys -------------------------------
(* Keys on small instances, for TLC. *)
EXTENDS Keys, TLC

CONSTANTS u1, q1, p1, p2, s1, s2, k1, k2, c1, c2, r1

SymKeys == Permutations(Processes) \cup Permutations(Pairs) \cup Permutations(Calls)
=============================================================================
