\* Two processes on changing secrets, one user who may register twice, two votes at once.
SPECIFICATION Spec
CONSTANTS
    NULL = NULL
    u1 = u1
    q1 = q1
    p1 = p1
    p2 = p2
    s1 = s1
    s2 = s2
    k1 = k1
    k2 = k2
    c1 = c1
    c2 = c2
    r1 = r1
    Users = {u1}
    Requests = {q1}
    Processes = {p1, p2}
    Secrets = {s1, s2}
    First = s1
    Pairs = {k1, k2}
    Calls = {c1, c2}
    Readers = {r1}
    MaxDeploys = 3
    MaxTime = 1
\* Deployments and receipts are bounded and every request may be resolved.
CHECK_DEADLOCK FALSE
SYMMETRY SymKeys
INVARIANTS TypeOK KeysReadable SignedByApprover ReceiptWhole
