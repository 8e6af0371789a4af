----------------------------- MODULE MCSession -----------------------------
(***************************************************************************)
(* Two elements of one author and one of another.  The ids are compared as *)
(* a1 < b1 < a2, so both orders of two concurrent elements, and an element *)
(* stopped by one of its own author, occur.                                *)
(***************************************************************************)
EXTENDS SessionHistory

CONSTANTS a1, a2, b1, alice, bob

MCClientOf == [id \in Ids |-> IF id \in {a1, a2} THEN alice ELSE bob]
MCIdGreater == {<<b1, a1>>, <<a2, a1>>, <<a2, b1>>}
=============================================================================
