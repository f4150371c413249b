------------------------------ MODULE MCPasskey ------------------------------
(* Passkey on small instances, for TLC. *)
EXTENDS Passkey, TLC

CONSTANTS u1, h1, h2, h3, c1, c2, k1, k2

SymPasskey == Permutations(Challenges) \cup Permutations(Calls)
=============================================================================
