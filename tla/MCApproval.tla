----------------------------- MODULE MCApproval -----------------------------
(* Approval on small instances, for TLC. *)
EXTENDS Approval, TLC

CONSTANTS alice, bob, p1, r1, r2, c1, c2, c3

\* One policy of each branch of evaluateQuorum, one with null counts, one where
\* n exceeds m, one whose quorum is two of three, one never escalated.
MCPolicyTerms ==
    { [type |-> "n_of_m",        n |-> NULL, m |-> NULL, timeout |-> 0],
      [type |-> "n_of_m",        n |-> 2,    m |-> 3,    timeout |-> 0],
      [type |-> "role_weighted", n |-> 2,    m |-> 1,    timeout |-> NULL],
      [type |-> "single_senior", n |-> NULL, m |-> NULL, timeout |-> 1],
      [type |-> "unanimous",     n |-> 1,    m |-> 1,    timeout |-> NULL] }
=============================================================================
