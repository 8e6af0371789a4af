------------------------------ MODULE MCCollab ------------------------------
(***************************************************************************)
(* Two or three users, numbered in the order of their names and connected  *)
(* in that order.                                                          *)
(***************************************************************************)
EXTENDS Collab

MCTwo == <<1, 2>>
MCThree == <<1, 2, 3>>
=============================================================================
