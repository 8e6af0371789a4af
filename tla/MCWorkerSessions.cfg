CONSTANTS
    w1 = w1
    w2 = w2
    c1 = c1
    c2 = c2
    e1 = e1
    e2 = e2
    NIL = NIL
    Workers = {w1, w2}
    Clients = {c1, c2}
    Elements = {e1, e2}
    Author <- MCAuthor
    EXPIRY_THRESHOLD = 2
    MaxClock = 2
    MaxFailures = 2
    MaxTogether = 3
SPECIFICATION FairSpec
INVARIANT LoadInv
PROPERTY YoungStay LockReleased
CHECK_DEADLOCK FALSE
