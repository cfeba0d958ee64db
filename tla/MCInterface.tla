----------------------------- MODULE MCInterface -----------------------------
(***************************************************************************)
(* Two directories, and at most one command of a kind and a directory      *)
(* under way: two of them can still answer in either order.                *)
(***************************************************************************)
EXTENDS Interface

CONSTANTS d1, d2
=============================================================================
