SPECIFICATION Spec
CONSTANTS
    NULL = NULL
    Failed = Failed
    f1 = f1
    f2 = f2
    r1 = r1
    r2 = r2
    Families = {f1, f2}
    Requests = {r1, r2}
    Quick = {r1}
    Authenticators = {a1, a2}
    Scopes <- MCScopes
    MaxGeneration = 3
    MaxSecrets = 2
    MaxJobs = 3
INVARIANTS
    TypeOK
    OwnSessionSpared
    VotedStaysGone
    EndsTrue
    TimersTrue
PROPERTY SignedOutStaysOut
CHECK_DEADLOCK FALSE
