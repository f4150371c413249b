\* Two concurrent appends: does the row lock prevent a fork?
SPECIFICATION Spec
CONSTANTS
    w1 = w1
    w2 = w2
    w3 = w3
    s1 = s1
    Writers = {w1, w2}
    EntryTypes = {"login"}
    Subjects = {s1}
    PoolSize = 2
    MaxAppends = 3
    MaxAborts = 0
\* Once MaxAppends appends are done nothing is left to do.
CHECK_DEADLOCK FALSE
INVARIANT NoFork
