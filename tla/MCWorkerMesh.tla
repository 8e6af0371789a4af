----------------------------- MODULE MCWorkerMesh -----------------------------
(***************************************************************************)
(* Three workers with a client on two of them.  The second client answers  *)
(* the first, or both type something of their own.                         *)
(***************************************************************************)
EXTENDS WorkerMesh

CONSTANTS w1, w2, w3, c1, c2, e1, e2

MCHome == [c \in Clients |-> IF c = c1 THEN w1 ELSE w2]
MCOneHome == [c \in Clients |-> w1]
MCAuthor == [e \in Elements |-> IF e = e1 THEN c1 ELSE c2]
MCApart == [e \in Elements |-> NIL]
MCAnswer == [e \in Elements |-> IF e = e1 THEN NIL ELSE e1]
=============================================================================
