\* Two concurrent calls: the status lifecycle of 00004_approval_requests.js.
SPECIFICATION Spec
CONSTANTS
    NULL = NULL
    alice = alice
    bob = bob
    p1 = p1
    r1 = r1
    r2 = r2
    c1 = c1
    c2 = c2
    c3 = c3
    PolicyIds = {p1}
    PolicyTerms <- MCPolicyTerms
    Users = {alice}
    RequestIds = {r1}
    Calls = {c1, c2}
    MaxTime = 0
    MaxDelegations = 0
    MaxAborts = 0
PROPERTY ResolvedIsFinal
