------------------------------ MODULE MCStepUp ------------------------------
(* StepUp on small instances, for TLC. *)
EXTENDS StepUp, TLC

CONSTANTS u1, i1, i2, a1, a2, s1, s2, k1, k2

SymCalls == Permutations(Calls)
SymStepUp == Permutations(Secrets) \cup Permutations(Calls)
=============================================================================
