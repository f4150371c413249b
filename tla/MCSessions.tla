----------------------------- MODULE MCSessions -----------------------------
(* Sessions on small instances, for TLC. *)
EXTENDS Sessions, TLC

CONSTANTS u1, t1, t2, t3, c1, c2

SymTokens == Permutations(Tokens) \cup Permutations(Calls)
=============================================================================
