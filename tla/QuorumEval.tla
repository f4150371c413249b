----------------------------- MODULE QuorumEval -----------------------------
(***************************************************************************)
(* The pure quorum rule of services/quorum.service.ts: what a policy says  *)
(* of a number of approve votes and a number of deny votes.  A policy's    *)
(* terms are a record [type, n, m, timeout]; n and m are nullable columns. *)
(***************************************************************************)
EXTENDS Integers

CONSTANT NULL     \* SQL NULL / JavaScript null

ASSUME NullAssumption == NULL \notin Int

Decisions == {"approve", "deny"}

\* What evaluateQuorum returns; "throws" is its default branch.
Verdicts == {"approved", "denied", "pending"}
Terminal == {"approved", "denied"}

Terms == [type : STRING, n : Int \cup {NULL}, m : Int \cup {NULL},
          timeout : Int \cup {NULL}]

\* policy.quorum_n ?? 1
OrOne(x) == IF x = NULL THEN 1 ELSE x

\* n_of_m and role_weighted: deny as soon as the remaining votes cannot reach n.
CountVerdict(n, m, approves, denies) ==
    LET votesRemaining == m - approves - denies
    IN  CASE approves >= n -> "approved"
          [] approves < n /\ approves + votesRemaining < n -> "denied"
          [] OTHER -> "pending"

\* single_senior: the first vote decides, an approve first.
SeniorVerdict(approves, denies) ==
    CASE approves >= 1 -> "approved"
      [] approves < 1 /\ denies >= 1 -> "denied"
      [] OTHER -> "pending"

\* A mistake: the default branch returns where it should throw.
EvaluateQuorumNoThrow(terms, approves, denies) ==
    CASE terms.type \in {"n_of_m", "role_weighted"} ->
            CountVerdict(OrOne(terms.n), OrOne(terms.m), approves, denies)
      [] terms.type = "single_senior" -> SeniorVerdict(approves, denies)
      [] OTHER -> "unsupported"

EvaluateQuorum(terms, approves, denies) ==
    CASE terms.type \in {"n_of_m", "role_weighted"} ->
            CountVerdict(OrOne(terms.n), OrOne(terms.m), approves, denies)
      [] terms.type = "single_senior" -> SeniorVerdict(approves, denies)
      [] OTHER -> "throws"
=============================================================================
