CONSTANTS
    w1 = w1
    w2 = w2
    c1 = c1
    c2 = c2
    NONE = NONE
    Workers = {w1, w2}
    Clients = {c1, c2}
    Executers = {c1}
    Inside = {c1}
    First = w1
    MaxJobs = 3
    Budgets <- MCBudgets
SPECIFICATION FairSpec
INVARIANT JobsInv ClickShows
PROPERTY DoneStays LockReleased EventuallyClickable ExecuteAnswered
CHECK_DEADLOCK FALSE
