\* A rotation and a reuse of the token it replaces.
SPECIFICATION Spec
CONSTANTS
    NULL = NULL
    u1 = u1
    t1 = t1
    t2 = t2
    t3 = t3
    c1 = c1
    c2 = c2
    Users = {u1}
    Tokens = {t1, t2, t3}
    Calls = {c1, c2}
    TTL = 1
    MaxUses = 2
    MaxTime = 0
    MaxAborts = 0
\* The clock and the uses of a token are bounded.
CHECK_DEADLOCK FALSE
INVARIANT ReuseRevokesFamily
