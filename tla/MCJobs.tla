------------------------------- MODULE MCJobs -------------------------------
(* Two workers, a client who runs a program and one who may come later.    *)
EXTENDS Jobs

CONSTANTS w1, w2, c1, c2

MCBudget(click, open, crash, break, unsaved) ==
    [click |-> click, open |-> open, crash |-> crash, break |-> break, unsaved |-> unsaved]
MCBudgets == {
    MCBudget(1, 0, 2, 0, 0),
    MCBudget(1, 0, 0, 1, 0),
    MCBudget(1, 1, 0, 0, 1),
    MCBudget(2, 1, 0, 0, 0) }
=============================================================================
