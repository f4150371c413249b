\* Two concurrent rotations, three tokens in one or more families, with a failure.
SPECIFICATION Spec
CONSTANTS
    NULL = NULL
    u1 = u1
    t1 = t1
    t2 = t2
    t3 = t3
    c1 = c1
    c2 = c2
    Users = {u1}
    Tokens = {t1, t2, t3}
    Calls = {c1, c2}
    TTL = 1
    MaxUses = 2
    MaxTime = 2
    MaxAborts = 1
\* The clock and the uses of a token are bounded.
CHECK_DEADLOCK FALSE
SYMMETRY SymTokens
INVARIANTS TypeOK SpentBeforeSuccessor SingleUseKeepsOneLive NoFalseReuse
PROPERTY DeadFamilyStaysDead
