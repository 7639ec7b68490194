--------------------------- MODULE MCTransition ----------------------------
(* A small instance of Transition for TLC.                                 *)
EXTENDS Transition
===========================================================================
