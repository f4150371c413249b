\* Two concurrent calls on one request, with failures: what holds, and what must happen.
SPECIFICATION FairSpec
CONSTANTS
    NULL = NULL
    alice = alice
    bob = bob
    p1 = p1
    r1 = r1
    r2 = r2
    c1 = c1
    c2 = c2
    c3 = c3
    Users = {alice, bob}
    PolicyIds = {p1}
    RequestIds = {r1}
    Calls = {c1, c2}
    PolicyTerms <- MCPolicyTerms
    MaxTime = 1
    MaxDelegations = 1
    MaxAborts = 1
INVARIANTS TypeOK RequesterVotesOnce VerdictJustified EscalatedWasOverdue AnswersAreTrue AuditAgrees
PROPERTIES HistoryKept DecisionSpec OverdueEscalates DecisiveVoteApplied
