--------------------------- MODULE MCWorkerSessions ---------------------------
(***************************************************************************)
(* Two workers and two clients who type one element each.                  *)
(***************************************************************************)
EXTENDS WorkerSessions

CONSTANTS w1, w2, c1, c2, e1, e2

MCAuthor == [e \in Elements |-> IF e = e1 THEN c1 ELSE c2]
=============================================================================
