----------------------------- MODULE MCRecovery -----------------------------
(***************************************************************************)
(* Instances of Recovery: a browser and two workers.  Each budget allows a *)
(* few of the things that may happen, so that together they have all of    *)
(* them, and the pairs that matter.                                        *)
(***************************************************************************)
EXTENDS Recovery

CONSTANTS w1, w2

Budget(what, edits, others, broken, ended, failed) ==
    [unruly |-> what, typed |-> edits, foreign |-> others, breaks |-> broken,
     crashes |-> ended, failures |-> failed]

\* Nothing the code is not made for but "moved", with which all text arrives.
Calm == { Budget({"moved"}, 2, 0, 1, 0, 0), Budget({"moved"}, 2, 0, 0, 1, 0),
          Budget({"moved"}, 1, 1, 1, 0, 0), Budget({"moved"}, 1, 1, 0, 1, 0) }

\* What loses text but ends no worker.
Lossy == { Budget({"start"}, 2, 0, 1, 0, 0), Budget({"start", "erase"}, 2, 0, 0, 1, 0),
           Budget({"start", "erase", "gap", "missed"}, 1, 1, 0, 1, 0) }

\* Anything: the page still keeps what is typed, and connects again.
Wild == { Budget({"doubled", "missed", "lost"}, 1, 0, 1, 0, 0),
          Budget(Unruly \ {"slow"}, 1, 0, 0, 1, 0), Budget(Unruly, 0, 0, 1, 0, 1) }

AllBudgets == Calm \cup Lossy \cup Wild
=============================================================================
