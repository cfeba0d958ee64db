------------------------------ MODULE MCScreens ------------------------------
(***************************************************************************)
(* Two agents; a session that comes and goes under a cursor on the last    *)
(* rows; up to two ticks under way, one that is left over from an earlier  *)
(* stay among them.  A recent project makes the menu one row longer than   *)
(* the screen.  A known model and another; two listings under way, one of  *)
(* an earlier visit among them.                                            *)
(***************************************************************************)
EXTENDS Screens

CONSTANTS a1, a2, known, other
=============================================================================
