\* Three writers on a pool of two clients, with a rollback.
SPECIFICATION FairSpec
CONSTANTS
    w1 = w1
    w2 = w2
    w3 = w3
    s1 = s1
    Writers = {w1, w2, w3}
    EntryTypes = {"login", "vote"}
    Subjects = {s1}
    PoolSize = 2
    MaxAppends = 4
    MaxAborts = 1
\* Once MaxAppends appends are done nothing is left to do.
CHECK_DEADLOCK FALSE
INVARIANTS TypeOK LinearWhenSerial ForkIsReported
PROPERTIES TreeSpec AppendEnds
