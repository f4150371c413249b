\* One append at a time, every payload: does the verifier accept the chain?
SPECIFICATION Spec
CONSTANTS
    w1 = w1
    w2 = w2
    w3 = w3
    s1 = s1
    Writers = {w1}
    EntryTypes = {"login", "vote", "risk_decision", "request_resolved"}
    Subjects = {s1}
    PoolSize = 1
    MaxAppends = 3
    MaxAborts = 0
\* Once MaxAppends appends are done nothing is left to do.
CHECK_DEADLOCK FALSE
INVARIANT HealthyChainVerifies
