CONSTANTS
    w1 = w1
    w2 = w2
    w3 = w3
    c1 = c1
    c2 = c2
    e1 = e1
    e2 = e2
    NIL = NIL
    Senders = {w1, w2, w3}
    Workers = {w1, w2, w3}
    Clients = {c1, c2}
    Elements = {e1}
    Home <- MCOneHome
    Author <- MCAuthor
    PrevOf <- MCApart
    MinNumWorkerConnections = 1
    MaxBreaks = 1
    MaxMissed = 0
    MaxCrashes = 0
    MaxLeaves = 0
SPECIFICATION FairSpec
PROPERTY EventuallyAcked
CHECK_DEADLOCK FALSE
