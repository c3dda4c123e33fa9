SPECIFICATION FairSpec
CONSTANTS
    r1 = r1
    k1 = k1
    Keys = {k1, k2}
    Requests = {r1, r2}
    Workers = {w1, w2}
    NoWorker = NoWorker
    MaxAttempts = 2
CHECK_DEADLOCK FALSE
CONSTRAINT FirstKeyFirst
INVARIANT ResultKept
 
PROPERTY NotesStable
PROPERTY JobSettles
