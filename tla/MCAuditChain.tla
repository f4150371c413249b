---------------------------- MODULE MCAuditChain ----------------------------
(* AuditChain on small instances, for TLC. *)
EXTENDS AuditChain, TLC

CONSTANTS w1, w2, w3, s1
=============================================================================
