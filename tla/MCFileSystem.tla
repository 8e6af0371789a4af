---------------------------- MODULE MCFileSystem ----------------------------
(***************************************************************************)
(* Two nodes.  One of them joins while sessions are being saved and read,  *)
(* or both are there from the start.                                       *)
(***************************************************************************)
EXTENDS FileSystem

CONSTANTS n1, n2
=============================================================================
