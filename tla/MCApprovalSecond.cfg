\* A second approver's vote on a request that one vote does not decide.
SPECIFICATION Spec
CONSTANTS
    NULL = NULL
    alice = alice
    bob = bob
    p1 = p1
    r1 = r1
    r2 = r2
    c1 = c1
    c2 = c2
    c3 = c3
    PolicyIds = {p1}
    PolicyTerms <- MCPolicyTerms
    Users = {alice, bob}
    RequestIds = {r1}
    Calls = {c1}
    MaxTime = 0
    MaxDelegations = 0
    MaxAborts = 0
INVARIANT SecondVoteHeard
