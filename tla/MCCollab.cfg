CONSTANTS
    NIL = NIL
    Joined <- MCTwo
    Openers = {}
    Deleters = {2}
    Opening = 1
    MaxNumber = 2
SPECIFICATION FairSpec
INVARIANT Converged CollabInv
PROPERTY EventuallyTheSame
CHECK_DEADLOCK FALSE
