\* One user, a home and another address, two secrets, two concurrent calls, a failure.
SPECIFICATION Spec
CONSTANTS
    NULL = NULL
    u1 = u1
    i1 = i1
    i2 = i2
    a1 = a1
    a2 = a2
    s1 = s1
    s2 = s2
    k1 = k1
    k2 = k2
    Users = {u1}
    Ips = {i1, i2}
    Agents = {a1, NULL}
    Secrets = {s1, s2}
    Calls = {k1, k2}
    CodeSteps = {0}
    WINDOW = 2
    MAX_ATTEMPTS = 1
    TTL = 2
    HISTORY = 1
    MaxTime = 2
    MaxTries = 3
    MaxLogins = 2
    MaxFailures = 1
\* The clock, the logins and the attempts are bounded.
CHECK_DEADLOCK FALSE
SYMMETRY SymStepUp
INVARIANTS TypeOK FirstSessionSteppedUp LimiterCaps LimiterForgives EnabledWasProved
