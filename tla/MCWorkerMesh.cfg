CONSTANTS
    w1 = w1
    w2 = w2
    w3 = w3
    c1 = c1
    c2 = c2
    e1 = e1
    e2 = e2
    NIL = NIL
    Senders = {w1}
    Workers = {w1, w2, w3}
    Clients = {c1, c2}
    Elements = {e1, e2}
    Home <- MCOneHome
    Author <- MCAuthor
    PrevOf <- MCAnswer
    MinNumWorkerConnections = 2
    MaxBreaks = 1
    MaxMissed = 1
    MaxCrashes = 1
    MaxLeaves = 1
SPECIFICATION Spec
INVARIANT AckedIsReplicated MeshInv
CHECK_DEADLOCK FALSE
