\* One user, one counting credential and one that does not count, a failure or restart.
SPECIFICATION Spec
CONSTANTS
    NULL = NULL
    u1 = u1
    h1 = h1
    h2 = h2
    h3 = h3
    c1 = c1
    c2 = c2
    k1 = k1
    k2 = k2
    Users = {u1}
    Challenges = {h1, h2, h3}
    Credentials = {c1, c2}
    Counting = {c1}
    Calls = {k1, k2}
    MaxCounter = 2
    MaxFailures = 1
\* Challenges and counters are bounded.
CHECK_DEADLOCK FALSE
SYMMETRY SymPasskey
INVARIANTS TypeOK OnlyLatestAndOnce CredentialHasKey
PROPERTY CounterFallsOnlyInRace
