CONSTANTS
    n1 = n1
    n2 = n2
    Nodes = {n1, n2}
    Registered = {n1}
    MaxSaves = 2
    MaxReads = 1
    MaxCrashes = 1
    Overlap = FALSE
SPECIFICATION Spec
INVARIANT ListedIsLatest ReadIsRecent
CHECK_DEADLOCK FALSE
