CONSTANTS
    NIL = NIL
    NONE = NONE
    w1 = w1
    w2 = w2
    Workers = {w1, w2}
    Me = 2
    Other = 1
    Budgets <- AllBudgets
SPECIFICATION FairSpec
INVARIANT PageInv NoWorkerPanics Converged
PROPERTY Reconnects
CHECK_DEADLOCK FALSE
